---- MODULE Spec2Model ----
(***************************************************************************)
(* Marker-recovery subsystem of camera_fusion (LightGlueFallback).         *)
(*                                                                         *)
(* One LightGlueFallback instance is modelled: its construction is Init,   *)
(* and every recover_missing call is one step.  The results of the vision  *)
(* libraries (optical flow, feature matching + homography, sub-pixel       *)
(* refinement, ArUco decoding of the warped patch) are inputs of the step, *)
(* drawn from small sets; everything the Python code decides on top of     *)
(* them (guards, bounds checks, rate limits, merging) is computed as the   *)
(* code computes it.                                                       *)
(*                                                                         *)
(* Python dicts are functions whose DOMAIN is the key set; None corners    *)
(* are the empty tuple; a (4, 2) corner array is a 4-tuple of <<x, y>>.    *)
(***************************************************************************)
EXTENDS Integers, Sequences, FiniteSets, TLC

\* ------------------------------------------------------------------ bounds
MaxFrame == 3           \* recover_missing calls per session
FrameW == 4             \* frame width in pixels
FrameH == 4             \* frame height in pixels
MaxCap == 2             \* largest max_fallback_markers_per_frame tried
AgeFrames == 1          \* cfg.max_age_frames of the session
IntervalFrames == 2     \* cfg.reacquire_interval_frames of the session
Inliers == 2            \* cfg.min_inliers of the session
RoiPx == 1              \* cfg.roi_expand_px of the session
PairFrames == 2         \* recover_missing calls per instance when two run
WorkerFrames == 2       \* frames a capture delivers to a worker; largest max_frames
MaxErrors == 2          \* failed reads are counted up to this number
WorkerOutputs == 2      \* output sinks of a worker
FacadeFrames == 2       \* frames a capture delivers to a facade session
FacadeDets == 2         \* target detections in one frame of a facade session
FacadeSessions == 2     \* run_session calls on one facade
QScale == 100           \* a match_quality of 1.0, in hundredths
QualityRecords == 2     \* attempt records kept when their quality is followed

\* the marker ids of the session
Markers == {1, 2}

\* -------------------------------------------------------- program constants
NeverFrame == -999      \* default of the .get() lookups

\* a configured reacquire interval longer than any frame index of the session
\* is away from the default of the lookup
LongInterval == MaxFrame - NeverFrame + 1

\* ------------------------------------------------------------ corner quads
None == <<>>

QuadA == <<<<1, 1>>, <<2, 1>>, <<2, 2>>, <<1, 2>>>>
QuadB == <<<<0, 0>>, <<1, 0>>, <<1, 1>>, <<0, 1>>>>
QuadNeg == <<<<-1, 0>>, <<0, 0>>, <<0, 1>>, <<-1, 1>>>>
QuadRight == <<<<FrameW - 1, 0>>, <<FrameW, 0>>, <<FrameW, 1>>, <<FrameW - 1, 1>>>>
QuadBelow == <<<<0, FrameH - 1>>, <<1, FrameH - 1>>, <<1, FrameH>>, <<0, FrameH>>>>

\* quads the direct detector reports (inside the frame)
DetQuads == {QuadA, QuadB}
\* quads optical flow or the homography projection can produce
RawQuads == {QuadB, QuadNeg, QuadRight, QuadBelow}
\* x displacement cornerSubPix may apply to the corners it is given
RefineShifts == {-1, 0}
\* shapes of the array cornerSubPix hands back for the (4, 2) array it is given
RefineShapes == {"4x2", "4x1x2"}

Xs(q) == {q[i][1] : i \in DOMAIN q}
Ys(q) == {q[i][2] : i \in DOMAIN q}
SetMin(S) == CHOOSE x \in S : \A y \in S : x <= y
SetMax(S) == CHOOSE x \in S : \A y \in S : x >= y
Max2(a, b) == IF a >= b THEN a ELSE b
Min2(a, b) == IF a <= b THEN a ELSE b
Shift(q, dx, dy) == [i \in DOMAIN q |-> <<q[i][1] + dx, q[i][2] + dy>>]

VARIABLES
    enabled,                \* self.enabled
    cfg,                    \* self.cfg
    aruco_detector,         \* self.aruco_detector is not None
    templates,              \* keys of self.templates
    current_frame_index,    \* self.current_frame_index
    tracker_states,         \* self.tracker_states
    last_reacquire_frame,   \* self.last_reacquire_frame
    init_failure,           \* what __init__ found missing, "none" if nothing
    call_args,              \* the arguments of the last recover_missing call, as passed
    detected_dict,          \* the caller's detected mapping after the last call
    expected_ids,           \* the caller's expected-id set after the last call
    updated_dict,           \* mapping returned by the last call
    debug_info,             \* list returned by the last call
    attempts,               \* the _recover_marker calls of the last call, in order
    last_matcher_frame,     \* per marker, the last frame in which the matcher ran
    other,                  \* a second instance of the same process
    pc,                     \* "returned" from a call until the caller has taken
                            \* its result, "idle" otherwise
    worker,                 \* a CameraWorker: its configuration, _stop_event,
                            \* and the locals and position of run()
    facade,                 \* a CameraPipelineFacade: publisher, header flag,
                            \* and the locals and position of run_session()
    history                 \* per marker, the frame and corners of its last
                            \* direct detection and the frame of its last
                            \* tracked result

vars == <<enabled, cfg, aruco_detector, templates, current_frame_index,
          tracker_states, last_reacquire_frame, init_failure, call_args,
          detected_dict, expected_ids, updated_dict, debug_info, attempts,
          last_matcher_frame, other, pc, worker, facade, history>>

EmptyDict == [m \in {} |-> None]

\* ------------------------------------------------- results of the libraries
\* cv2.calcOpticalFlowPyrLK on the ROI: it raises, or returns whether all four
\* points were tracked and the four points in ROI coordinates
Flows ==
    {[raised |-> TRUE, status |-> FALSE, corners |-> None]}
    \cup {[raised |-> FALSE, status |-> FALSE, corners |-> q] : q \in {QuadB}}
    \cup {[raised |-> FALSE, status |-> TRUE, corners |-> q] : q \in RawQuads}

\* SuperPoint + LightGlue + cv2.findHomography + cv2.perspectiveTransform on
\* the search region: it raises, or returns the number of valid matches,
\* whether a homography was found, its inlier count and the projected corners
Matches ==
    {[raised |-> TRUE, valid |-> 0, found |-> FALSE, inliers |-> 0, corners |-> None]}
    \cup {[raised |-> FALSE, valid |-> Inliers - 1, found |-> FALSE, inliers |-> 0,
           corners |-> None]}
    \cup {[raised |-> FALSE, valid |-> Inliers, found |-> FALSE, inliers |-> 0,
           corners |-> None]}
    \cup {[raised |-> FALSE, valid |-> Inliers + 1, found |-> TRUE, inliers |-> Inliers - 1,
           corners |-> QuadB]}
    \cup {[raised |-> FALSE, valid |-> Inliers + 1, found |-> TRUE, inliers |-> Inliers,
           corners |-> q] : q \in RawQuads}

\* ArUco decoding of the warped patch: it raises, or returns the decoded ids
Decodes ==
    {[raised |-> TRUE, ids |-> {}]}
    \cup {[raised |-> FALSE, ids |-> s] : s \in {{}} \cup {{x} : x \in Markers}}

NoInfo == [marker_id |-> 0, source |-> "none", inliers |-> 0]
NoResult == [corners |-> None, info |-> NoInfo]

\* _verify_marker_id rejecting every candidate when there is no detector
_verify_marker_id_reject_without_detector(self, dec, expected_id) ==
    IF ~self.cfg.verify_id
    THEN TRUE
    ELSE IF ~self.aruco_detector
         THEN FALSE
         ELSE IF dec.raised
              THEN FALSE
              ELSE IF dec.ids # {}
                   THEN expected_id \in dec.ids
                   ELSE FALSE

\* _verify_marker_id accepting a patch in which nothing was decoded
_verify_marker_id_empty_ok(self, dec, expected_id) ==
    IF ~self.cfg.verify_id \/ ~self.aruco_detector
    THEN TRUE
    ELSE IF dec.raised
         THEN FALSE
         ELSE IF dec.ids # {}
              THEN expected_id \in dec.ids
              ELSE TRUE

\* LightGlueFallback._verify_marker_id; dec is what detectMarkers does on the
\* warped patch
_verify_marker_id(self, dec, expected_id) ==
    IF ~self.cfg.verify_id \/ ~self.aruco_detector
    THEN TRUE
    ELSE IF dec.raised
         THEN FALSE
         ELSE IF dec.ids # {}
              THEN expected_id \in dec.ids
              ELSE FALSE

\* the sanity check "corners are within the frame" of the tracker and matcher
OutOfFrame(q) ==
    \/ \E i \in DOMAIN q : q[i][1] < 0 \/ q[i][2] < 0
    \/ \E i \in DOMAIN q : q[i][1] >= FrameW
    \/ \E i \in DOMAIN q : q[i][2] >= FrameH

\* cv2.cornerSubPix under cfg.corner_refine
Refine(self, q, shift) == IF self.cfg.corner_refine THEN Shift(q, shift, 0) ELSE q

\* the array cornerSubPix returns, in the shape the library gives it
Reshaped(self, q, shape) ==
    IF self.cfg.corner_refine /\ shape = "4x1x2" THEN [i \in DOMAIN q |-> <<q[i]>>] ELSE q

\* _track_marker without the check that all four points were tracked
_track_marker_ignore_status(self, marker_id, tracker_state, flow, shift) ==
    LET last_corners == tracker_state.last_corners
        x_min == Max2(0, SetMin(Xs(last_corners)) - self.cfg.roi_expand_px)
        x_max == Min2(FrameW, SetMax(Xs(last_corners)) + self.cfg.roi_expand_px)
        y_min == Max2(0, SetMin(Ys(last_corners)) - self.cfg.roi_expand_px)
        y_max == Min2(FrameH, SetMax(Ys(last_corners)) + self.cfg.roi_expand_px)
        tracked_corners == Shift(flow.corners, x_min, y_min)
    IN  IF x_max <= x_min \/ y_max <= y_min THEN NoResult
        ELSE IF flow.raised THEN NoResult
        ELSE IF OutOfFrame(tracked_corners) THEN NoResult
        ELSE [corners |-> Refine(self, tracked_corners, shift),
              info |-> [marker_id |-> marker_id, source |-> "lg_track", inliers |-> 4]]

\* LightGlueFallback._track_marker; flow and shift are what optical flow and
\* cornerSubPix do on this frame
_track_marker(self, marker_id, tracker_state, flow, shift) ==
    LET last_corners == tracker_state.last_corners
        x_min == Max2(0, SetMin(Xs(last_corners)) - self.cfg.roi_expand_px)
        x_max == Min2(FrameW, SetMax(Xs(last_corners)) + self.cfg.roi_expand_px)
        y_min == Max2(0, SetMin(Ys(last_corners)) - self.cfg.roi_expand_px)
        y_max == Min2(FrameH, SetMax(Ys(last_corners)) + self.cfg.roi_expand_px)
        tracked_corners == Shift(flow.corners, x_min, y_min)
    IN  IF x_max <= x_min \/ y_max <= y_min THEN NoResult
        ELSE IF flow.raised THEN NoResult
        ELSE IF ~flow.status THEN NoResult
        ELSE IF OutOfFrame(tracked_corners) THEN NoResult
        ELSE [corners |-> Refine(self, tracked_corners, shift),
              info |-> [marker_id |-> marker_id, source |-> "lg_track", inliers |-> 4]]

\* the template check left out
HasTemplate_always(self, marker_id) == TRUE

\* marker_id in self.templates
HasTemplate(self, marker_id) == marker_id \in self.templates

\* the matcher accepting a homography whatever its inlier count
_reacquire_from_template_no_inlier_check(self, marker_id, match, shift, shape) ==
    IF ~HasTemplate(self, marker_id)
    THEN [corners |-> None, info |-> NoInfo, ran |-> FALSE, consistent |-> FALSE]
    ELSE
    LET use_roi == self.cfg.prefer_roi_matching /\ marker_id \in DOMAIN self.tracker_states
        last_corners == self.tracker_states[marker_id].last_corners
        roi_expand == self.cfg.roi_expand_px * 3
        x_min == Max2(0, SetMin(Xs(last_corners)) - roi_expand)
        x_max == Min2(FrameW, SetMax(Xs(last_corners)) + roi_expand)
        y_min == Max2(0, SetMin(Ys(last_corners)) - roi_expand)
        y_max == Min2(FrameH, SetMax(Ys(last_corners)) + roi_expand)
        cropped == use_roi /\ x_max > x_min /\ y_max > y_min
        roi_offset_x == IF cropped THEN x_min ELSE 0
        roi_offset_y == IF cropped THEN y_min ELSE 0
        recovered_corners ==
            IF roi_offset_x # 0 \/ roi_offset_y # 0
            THEN Shift(match.corners, roi_offset_x, roi_offset_y)
            ELSE match.corners
        fail == [corners |-> None, info |-> NoInfo, ran |-> TRUE, consistent |-> FALSE]
    IN  IF match.raised THEN fail
        ELSE IF match.valid < self.cfg.min_inliers THEN fail
        ELSE IF ~match.found THEN fail
        ELSE IF OutOfFrame(recovered_corners) THEN [fail EXCEPT !.consistent = TRUE]
        ELSE [corners |-> Reshaped(self, Refine(self, recovered_corners, shift), shape),
              info |-> [marker_id |-> marker_id, source |-> "lg_reacquire",
                        inliers |-> match.inliers],
              ran |-> TRUE, consistent |-> TRUE]

\* the matcher searching around the last corners whatever prefer_roi_matching
_reacquire_from_template_always_roi(self, marker_id, match, shift, shape) ==
    IF ~HasTemplate(self, marker_id)
    THEN [corners |-> None, info |-> NoInfo, ran |-> FALSE, consistent |-> FALSE]
    ELSE
    LET use_roi == marker_id \in DOMAIN self.tracker_states
        last_corners == self.tracker_states[marker_id].last_corners
        roi_expand == self.cfg.roi_expand_px * 3
        x_min == Max2(0, SetMin(Xs(last_corners)) - roi_expand)
        x_max == Min2(FrameW, SetMax(Xs(last_corners)) + roi_expand)
        y_min == Max2(0, SetMin(Ys(last_corners)) - roi_expand)
        y_max == Min2(FrameH, SetMax(Ys(last_corners)) + roi_expand)
        cropped == use_roi /\ x_max > x_min /\ y_max > y_min
        roi_offset_x == IF cropped THEN x_min ELSE 0
        roi_offset_y == IF cropped THEN y_min ELSE 0
        recovered_corners ==
            IF roi_offset_x # 0 \/ roi_offset_y # 0
            THEN Shift(match.corners, roi_offset_x, roi_offset_y)
            ELSE match.corners
        fail == [corners |-> None, info |-> NoInfo, ran |-> TRUE, consistent |-> FALSE]
    IN  IF match.raised THEN fail
        ELSE IF match.valid < self.cfg.min_inliers THEN fail
        ELSE IF ~match.found THEN fail
        ELSE IF match.inliers < self.cfg.min_inliers THEN fail
        ELSE IF OutOfFrame(recovered_corners) THEN [fail EXCEPT !.consistent = TRUE]
        ELSE [corners |-> Reshaped(self, Refine(self, recovered_corners, shift), shape),
              info |-> [marker_id |-> marker_id, source |-> "lg_reacquire",
                        inliers |-> match.inliers],
              ran |-> TRUE, consistent |-> TRUE]

\* LightGlueFallback._reacquire_from_template; match and shift are what the
\* matcher and cornerSubPix do on this frame.  ran tells whether the matcher
\* was run at all.
_reacquire_from_template(self, marker_id, match, shift, shape) ==
    IF ~HasTemplate(self, marker_id)
    THEN [corners |-> None, info |-> NoInfo, ran |-> FALSE, consistent |-> FALSE]
    ELSE
    LET use_roi == self.cfg.prefer_roi_matching /\ marker_id \in DOMAIN self.tracker_states
        last_corners == self.tracker_states[marker_id].last_corners
        roi_expand == self.cfg.roi_expand_px * 3
        x_min == Max2(0, SetMin(Xs(last_corners)) - roi_expand)
        x_max == Min2(FrameW, SetMax(Xs(last_corners)) + roi_expand)
        y_min == Max2(0, SetMin(Ys(last_corners)) - roi_expand)
        y_max == Min2(FrameH, SetMax(Ys(last_corners)) + roi_expand)
        cropped == use_roi /\ x_max > x_min /\ y_max > y_min
        roi_offset_x == IF cropped THEN x_min ELSE 0
        roi_offset_y == IF cropped THEN y_min ELSE 0
        recovered_corners ==
            IF roi_offset_x # 0 \/ roi_offset_y # 0
            THEN Shift(match.corners, roi_offset_x, roi_offset_y)
            ELSE match.corners
        fail == [corners |-> None, info |-> NoInfo, ran |-> TRUE, consistent |-> FALSE]
    IN  IF match.raised THEN fail
        ELSE IF match.valid < self.cfg.min_inliers THEN fail
        ELSE IF ~match.found THEN fail
        ELSE IF match.inliers < self.cfg.min_inliers THEN fail
        ELSE IF OutOfFrame(recovered_corners) THEN [fail EXCEPT !.consistent = TRUE]
        ELSE [corners |-> Reshaped(self, Refine(self, recovered_corners, shift), shape),
              info |-> [marker_id |-> marker_id, source |-> "lg_reacquire",
                        inliers |-> match.inliers],
              ran |-> TRUE, consistent |-> TRUE]

\* dict.get(key, default)
Get(d, k, default) == IF k \in DOMAIN d THEN d[k] ELSE default
\* d[k] = v on a dict
Put(d, k, v) == [x \in DOMAIN d \cup {k} |-> IF x = k THEN v ELSE d[x]]

\* what the tracker and the matcher can return for a marker on one frame
TrackResults(self, marker_id) ==
    IF marker_id \in DOMAIN self.tracker_states
    THEN {_track_marker(self, marker_id, self.tracker_states[marker_id], fl, sh) :
            fl \in Flows, sh \in RefineShifts}
    ELSE {NoResult}

ReacquireResults(self, marker_id) ==
    {_reacquire_from_template(self, marker_id, mt, sh, shape) :
        mt \in Matches, sh \in RefineShifts, shape \in RefineShapes}

\* the decoder runs only on a candidate: without one its result is immaterial
DecodesOf(res) == IF res.corners = None THEN {[raised |-> FALSE, ids |-> {}]} ELSE Decodes

\* the outcomes of the calls _recover_marker may make for a marker on one
\* frame: track is what self._track_marker returns, reacq what
\* self._reacquire_from_template returns, dec_track and dec_reacq what the
\* decoder does on the patch of either candidate
Calls(self, marker_id) ==
    UNION {{[track |-> t, dec_track |-> d1, reacq |-> r, dec_reacq |-> d2] :
                d1 \in DecodesOf(t), d2 \in DecodesOf(r)} :
            t \in TrackResults(self, marker_id),
            r \in ReacquireResults(self, marker_id)}

\* the decoded patch does not show the expected id
BadDecode(dec, expected_id) == dec.raised \/ expected_id \notin dec.ids

\* the tracking guard without the age limit
TrackApplicable_any_age(self, marker_id) ==
    /\ marker_id \in DOMAIN self.tracker_states
    /\ self.tracker_states[marker_id].last_frame_gray

\* the guard of the tracking branch of _recover_marker
TrackApplicable(self, marker_id) ==
    /\ marker_id \in DOMAIN self.tracker_states
    /\ LET tracker_state == self.tracker_states[marker_id]
           age == self.current_frame_index - tracker_state.last_seen_frame_index
       IN  age <= self.cfg.max_age_frames /\ tracker_state.last_frame_gray

\* no interval guard
ReacquireSkipped_never(self, marker_id) == FALSE

\* the reacquire-interval guard of _recover_marker
ReacquireSkipped(self, marker_id) ==
    LET last_reacquire == Get(self.last_reacquire_frame, marker_id, NeverFrame)
        frames_since_reacquire == self.current_frame_index - last_reacquire
    IN  frames_since_reacquire < self.cfg.reacquire_interval_frames

\* recovered_corners.shape == (4, 2)
IsQuad(c) == Len(c) = 4 /\ \A i \in 1..4 : Len(c[i]) = 2

\* _recover_marker ending the attempt when the tracked candidate fails
\* verification
_recover_marker_give_up(self, marker_id, ext) ==
    LET try_track == TrackApplicable(self, marker_id)
        track_cand == try_track /\ ext.track.corners # None
        track_ok == track_cand /\ _verify_marker_id(self, ext.dec_track, marker_id)
        skip == ReacquireSkipped(self, marker_id)
        do_reacq == ~track_cand /\ ~skip
        reacq_cand == do_reacq /\ ext.reacq.corners # None
        reacq_ok == reacq_cand /\ _verify_marker_id(self, ext.dec_reacq, marker_id)
        verifying == self.cfg.verify_id /\ self.aruco_detector
        trace == [marker_id |-> marker_id,
                  tracked |-> try_track,
                  matched |-> do_reacq /\ ext.reacq.ran,
                  consistent |-> do_reacq /\ ext.reacq.consistent,
                  failed |->
                      (IF try_track /\ ~track_cand THEN {"lg_track"} ELSE {})
                      \cup
                      (IF do_reacq /\ ext.reacq.ran /\ ~reacq_cand
                       THEN {"lg_reacquire"} ELSE {}),
                  raised |->
                      (IF track_cand /\ verifying /\ ext.dec_track.raised
                       THEN {"lg_track"} ELSE {})
                      \cup
                      (IF reacq_cand /\ verifying /\ ext.dec_reacq.raised
                       THEN {"lg_reacquire"} ELSE {}),
                  skipped |-> ~track_cand /\ skip,
                  track_accepted |-> track_ok,
                  returned |-> "none",
                  track_from |-> IF try_track THEN self.tracker_states[marker_id]
                                 ELSE None,
                  malformed |-> reacq_cand /\ ~IsQuad(ext.reacq.corners),
                  bad_decode |->
                      (IF track_cand /\ BadDecode(ext.dec_track, marker_id)
                       THEN {"lg_track"} ELSE {})
                      \cup
                      (IF reacq_cand /\ BadDecode(ext.dec_reacq, marker_id)
                       THEN {"lg_reacquire"} ELSE {})]
        out == IF track_ok
               THEN [corners |-> ext.track.corners, info |-> ext.track.info,
                     last_reacquire_frame |-> self.last_reacquire_frame]
               ELSE IF track_cand
               THEN [corners |-> None, info |-> NoInfo,
                     last_reacquire_frame |-> self.last_reacquire_frame]
               ELSE IF skip
               THEN [corners |-> None, info |-> NoInfo,
                     last_reacquire_frame |-> self.last_reacquire_frame]
               ELSE IF ext.reacq.corners # None
               THEN [corners |-> IF reacq_ok THEN ext.reacq.corners ELSE None,
                     info |-> IF reacq_ok THEN ext.reacq.info ELSE NoInfo,
                     last_reacquire_frame |->
                         Put(self.last_reacquire_frame, marker_id,
                             self.current_frame_index)]
               ELSE [corners |-> None, info |-> NoInfo,
                     last_reacquire_frame |-> self.last_reacquire_frame]
    IN  [corners |-> out.corners, info |-> out.info,
         last_reacquire_frame |-> out.last_reacquire_frame,
         trace |-> [trace EXCEPT !.returned = out.info.source]]

\* _recover_marker writing last_reacquire_frame whenever the matcher ran
_recover_marker_stamp_every_run(self, marker_id, ext) ==
    LET try_track == TrackApplicable(self, marker_id)
        track_cand == try_track /\ ext.track.corners # None
        track_ok == track_cand /\ _verify_marker_id(self, ext.dec_track, marker_id)
        skip == ReacquireSkipped(self, marker_id)
        do_reacq == ~track_ok /\ ~skip
        reacq_cand == do_reacq /\ ext.reacq.corners # None
        reacq_ok == reacq_cand /\ _verify_marker_id(self, ext.dec_reacq, marker_id)
        verifying == self.cfg.verify_id /\ self.aruco_detector
        trace == [marker_id |-> marker_id,
                  tracked |-> try_track,
                  matched |-> do_reacq /\ ext.reacq.ran,
                  consistent |-> do_reacq /\ ext.reacq.consistent,
                  failed |->
                      (IF try_track /\ ~track_cand THEN {"lg_track"} ELSE {})
                      \cup
                      (IF do_reacq /\ ext.reacq.ran /\ ~reacq_cand
                       THEN {"lg_reacquire"} ELSE {}),
                  raised |->
                      (IF track_cand /\ verifying /\ ext.dec_track.raised
                       THEN {"lg_track"} ELSE {})
                      \cup
                      (IF reacq_cand /\ verifying /\ ext.dec_reacq.raised
                       THEN {"lg_reacquire"} ELSE {}),
                  skipped |-> ~track_ok /\ skip,
                  track_accepted |-> track_ok,
                  returned |-> "none",
                  track_from |-> IF try_track THEN self.tracker_states[marker_id]
                                 ELSE None,
                  malformed |-> reacq_cand /\ ~IsQuad(ext.reacq.corners),
                  bad_decode |->
                      (IF track_cand /\ BadDecode(ext.dec_track, marker_id)
                       THEN {"lg_track"} ELSE {})
                      \cup
                      (IF reacq_cand /\ BadDecode(ext.dec_reacq, marker_id)
                       THEN {"lg_reacquire"} ELSE {})]
        out == IF track_ok
               THEN [corners |-> ext.track.corners, info |-> ext.track.info,
                     last_reacquire_frame |-> self.last_reacquire_frame]
               ELSE IF skip
               THEN [corners |-> None, info |-> NoInfo,
                     last_reacquire_frame |-> self.last_reacquire_frame]
               ELSE IF ext.reacq.corners # None
               THEN [corners |-> IF reacq_ok THEN ext.reacq.corners ELSE None,
                     info |-> IF reacq_ok THEN ext.reacq.info ELSE NoInfo,
                     last_reacquire_frame |->
                         Put(self.last_reacquire_frame, marker_id,
                             self.current_frame_index)]
               ELSE [corners |-> None, info |-> NoInfo,
                     last_reacquire_frame |->
                         IF ext.reacq.ran
                         THEN Put(self.last_reacquire_frame, marker_id,
                                  self.current_frame_index)
                         ELSE self.last_reacquire_frame]
    IN  [corners |-> out.corners, info |-> out.info,
         last_reacquire_frame |-> out.last_reacquire_frame,
         trace |-> [trace EXCEPT !.returned = out.info.source]]

\* _recover_marker running the matcher also after an accepted tracked candidate
_recover_marker_match_anyway(self, marker_id, ext) ==
    LET try_track == TrackApplicable(self, marker_id)
        track_cand == try_track /\ ext.track.corners # None
        track_ok == track_cand /\ _verify_marker_id(self, ext.dec_track, marker_id)
        skip == ReacquireSkipped(self, marker_id)
        do_reacq == ~skip
        reacq_cand == do_reacq /\ ext.reacq.corners # None
        reacq_ok == reacq_cand /\ _verify_marker_id(self, ext.dec_reacq, marker_id)
        verifying == self.cfg.verify_id /\ self.aruco_detector
        trace == [marker_id |-> marker_id,
                  tracked |-> try_track,
                  matched |-> do_reacq /\ ext.reacq.ran,
                  consistent |-> do_reacq /\ ext.reacq.consistent,
                  failed |->
                      (IF try_track /\ ~track_cand THEN {"lg_track"} ELSE {})
                      \cup
                      (IF do_reacq /\ ext.reacq.ran /\ ~reacq_cand
                       THEN {"lg_reacquire"} ELSE {}),
                  raised |->
                      (IF track_cand /\ verifying /\ ext.dec_track.raised
                       THEN {"lg_track"} ELSE {})
                      \cup
                      (IF reacq_cand /\ verifying /\ ext.dec_reacq.raised
                       THEN {"lg_reacquire"} ELSE {}),
                  skipped |-> ~track_ok /\ skip,
                  track_accepted |-> track_ok,
                  returned |-> "none",
                  track_from |-> IF try_track THEN self.tracker_states[marker_id]
                                 ELSE None,
                  malformed |-> reacq_cand /\ ~IsQuad(ext.reacq.corners),
                  bad_decode |->
                      (IF track_cand /\ BadDecode(ext.dec_track, marker_id)
                       THEN {"lg_track"} ELSE {})
                      \cup
                      (IF reacq_cand /\ BadDecode(ext.dec_reacq, marker_id)
                       THEN {"lg_reacquire"} ELSE {})]
        out == IF track_ok
               THEN [corners |-> ext.track.corners, info |-> ext.track.info,
                     last_reacquire_frame |->
                         IF reacq_cand
                         THEN Put(self.last_reacquire_frame, marker_id,
                                  self.current_frame_index)
                         ELSE self.last_reacquire_frame]
               ELSE IF skip
               THEN [corners |-> None, info |-> NoInfo,
                     last_reacquire_frame |-> self.last_reacquire_frame]
               ELSE IF ext.reacq.corners # None
               THEN [corners |-> IF reacq_ok THEN ext.reacq.corners ELSE None,
                     info |-> IF reacq_ok THEN ext.reacq.info ELSE NoInfo,
                     last_reacquire_frame |->
                         Put(self.last_reacquire_frame, marker_id,
                             self.current_frame_index)]
               ELSE [corners |-> None, info |-> NoInfo,
                     last_reacquire_frame |-> self.last_reacquire_frame]
    IN  [corners |-> out.corners, info |-> out.info,
         last_reacquire_frame |-> out.last_reacquire_frame,
         trace |-> [trace EXCEPT !.returned = out.info.source]]

\* LightGlueFallback._recover_marker.  Besides (corners, info) the result
\* holds self.last_reacquire_frame as the call leaves it and a trace of what
\* the call did: whether the tracker was invoked, whether the matcher ran,
\* whether it found min_inliers valid matches and a homography with
\* min_inliers inliers, the
\* candidates whose patch did not decode to the marker, the stages that were
\* invoked and returned no candidate, the stages whose verification raised,
\* whether the interval guard ended the call, whether the tracker's candidate
\* was accepted, the source of the result returned, the TrackerState handed
\* to the tracker, and whether the matcher's candidate was not a (4, 2) array.
_recover_marker(self, marker_id, ext) ==
    LET try_track == TrackApplicable(self, marker_id)
        track_cand == try_track /\ ext.track.corners # None
        track_ok == track_cand /\ _verify_marker_id(self, ext.dec_track, marker_id)
        skip == ReacquireSkipped(self, marker_id)
        do_reacq == ~track_ok /\ ~skip
        reacq_cand == do_reacq /\ ext.reacq.corners # None
        reacq_ok == reacq_cand /\ _verify_marker_id(self, ext.dec_reacq, marker_id)
        verifying == self.cfg.verify_id /\ self.aruco_detector
        trace == [marker_id |-> marker_id,
                  tracked |-> try_track,
                  matched |-> do_reacq /\ ext.reacq.ran,
                  consistent |-> do_reacq /\ ext.reacq.consistent,
                  failed |->
                      (IF try_track /\ ~track_cand THEN {"lg_track"} ELSE {})
                      \cup
                      (IF do_reacq /\ ext.reacq.ran /\ ~reacq_cand
                       THEN {"lg_reacquire"} ELSE {}),
                  raised |->
                      (IF track_cand /\ verifying /\ ext.dec_track.raised
                       THEN {"lg_track"} ELSE {})
                      \cup
                      (IF reacq_cand /\ verifying /\ ext.dec_reacq.raised
                       THEN {"lg_reacquire"} ELSE {}),
                  skipped |-> ~track_ok /\ skip,
                  track_accepted |-> track_ok,
                  returned |-> "none",
                  track_from |-> IF try_track THEN self.tracker_states[marker_id]
                                 ELSE None,
                  malformed |-> reacq_cand /\ ~IsQuad(ext.reacq.corners),
                  bad_decode |->
                      (IF track_cand /\ BadDecode(ext.dec_track, marker_id)
                       THEN {"lg_track"} ELSE {})
                      \cup
                      (IF reacq_cand /\ BadDecode(ext.dec_reacq, marker_id)
                       THEN {"lg_reacquire"} ELSE {})]
        out == IF track_ok
               THEN [corners |-> ext.track.corners, info |-> ext.track.info,
                     last_reacquire_frame |-> self.last_reacquire_frame]
               ELSE IF skip
               THEN [corners |-> None, info |-> NoInfo,
                     last_reacquire_frame |-> self.last_reacquire_frame]
               ELSE IF ext.reacq.corners # None
               THEN [corners |-> IF reacq_ok THEN ext.reacq.corners ELSE None,
                     info |-> IF reacq_ok THEN ext.reacq.info ELSE NoInfo,
                     last_reacquire_frame |->
                         Put(self.last_reacquire_frame, marker_id,
                             self.current_frame_index)]
               ELSE [corners |-> None, info |-> NoInfo,
                     last_reacquire_frame |-> self.last_reacquire_frame]
    IN  [corners |-> out.corners, info |-> out.info,
         last_reacquire_frame |-> out.last_reacquire_frame,
         trace |-> [trace EXCEPT !.returned = out.info.source]]

\* the loop body appending info outside the "if recovered_corners is not None"
LoopBody_always_append(acc, marker_id, res) ==
    LET merged == res.corners # None /\ IsQuad(res.corners)
    IN  [updated_dict |-> IF merged THEN Put(acc.updated_dict, marker_id, res.corners)
                          ELSE acc.updated_dict,
         debug_info |-> Append(acc.debug_info, res.info),
         recovery_attempts |-> acc.recovery_attempts + 1,
         last_reacquire_frame |-> res.last_reacquire_frame,
         attempts |-> Append(acc.attempts, res.trace)]

\* the loop body merging the corners without appending info
LoopBody_no_append(acc, marker_id, res) ==
    LET merged == res.corners # None /\ IsQuad(res.corners)
    IN  [updated_dict |-> IF merged THEN Put(acc.updated_dict, marker_id, res.corners)
                          ELSE acc.updated_dict,
         debug_info |-> acc.debug_info,
         recovery_attempts |-> acc.recovery_attempts + 1,
         last_reacquire_frame |-> res.last_reacquire_frame,
         attempts |-> Append(acc.attempts, res.trace)]

\* the loop body merging whatever _recover_marker returned, of any shape
LoopBody_no_shape_check(acc, marker_id, res) ==
    LET merged == res.corners # None
    IN  [updated_dict |-> IF merged THEN Put(acc.updated_dict, marker_id, res.corners)
                          ELSE acc.updated_dict,
         debug_info |-> IF merged THEN Append(acc.debug_info, res.info)
                        ELSE acc.debug_info,
         recovery_attempts |-> acc.recovery_attempts + 1,
         last_reacquire_frame |-> res.last_reacquire_frame,
         attempts |-> Append(acc.attempts, res.trace)]

\* the loop body counting an attempt only when the tracker or the matcher ran
LoopBody_free_when_idle(acc, marker_id, res) ==
    LET merged == res.corners # None /\ IsQuad(res.corners)
    IN  [updated_dict |-> IF merged THEN Put(acc.updated_dict, marker_id, res.corners)
                          ELSE acc.updated_dict,
         debug_info |-> IF merged THEN Append(acc.debug_info, res.info)
                        ELSE acc.debug_info,
         recovery_attempts |->
             IF res.trace.tracked \/ res.trace.matched
             THEN acc.recovery_attempts + 1 ELSE acc.recovery_attempts,
         last_reacquire_frame |-> res.last_reacquire_frame,
         attempts |-> Append(acc.attempts, res.trace)]

\* the body of the recovery loop of recover_missing for one marker, after the
\* cap check: acc holds updated_dict, debug_info, recovery_attempts and the
\* instance's last_reacquire_frame, res is what _recover_marker returned
LoopBody(acc, marker_id, res) ==
    LET merged == res.corners # None /\ IsQuad(res.corners)
    IN  [updated_dict |-> IF merged THEN Put(acc.updated_dict, marker_id, res.corners)
                          ELSE acc.updated_dict,
         debug_info |-> IF merged THEN Append(acc.debug_info, res.info)
                        ELSE acc.debug_info,
         recovery_attempts |-> acc.recovery_attempts + 1,
         last_reacquire_frame |-> res.last_reacquire_frame,
         attempts |-> Append(acc.attempts, res.trace)]

\* the cap check with > for >=
CapReached_gt(self, acc) ==
    acc.recovery_attempts > self.cfg.max_fallback_markers_per_frame

\* the cap check at the head of the recovery loop
CapReached(self, acc) ==
    acc.recovery_attempts >= self.cfg.max_fallback_markers_per_frame

\* for marker_id in missing_ids_sorted: ... of recover_missing, from position
\* i on: the set of final accumulators over what the libraries can return
RECURSIVE RecoveryLoop(_, _, _, _)
\* the loop leaving at the first marker that is not recovered
RecoveryLoop_break_on_failure(self, missing_ids_sorted, i, acc) ==
    IF i > Len(missing_ids_sorted) THEN {acc}
    ELSE IF CapReached(self, acc) THEN {acc}
    ELSE LET marker_id == missing_ids_sorted[i]
             now == [self EXCEPT !.last_reacquire_frame = acc.last_reacquire_frame]
             results == {_recover_marker(now, marker_id, e) : e \in Calls(now, marker_id)}
         IN  UNION {IF res.corners = None
                    THEN {LoopBody(acc, marker_id, res)}
                    ELSE RecoveryLoop(self, missing_ids_sorted, i + 1,
                                      LoopBody(acc, marker_id, res)) :
                    res \in results}

RecoveryLoop(self, missing_ids_sorted, i, acc) ==
    IF i > Len(missing_ids_sorted) THEN {acc}
    ELSE IF CapReached(self, acc) THEN {acc}
    ELSE LET marker_id == missing_ids_sorted[i]
             now == [self EXCEPT !.last_reacquire_frame = acc.last_reacquire_frame]
             results == {_recover_marker(now, marker_id, e) : e \in Calls(now, marker_id)}
             next == {LoopBody(acc, marker_id, res) : res \in results}
         IN  UNION {RecoveryLoop(self, missing_ids_sorted, i + 1, a) : a \in next}

\* the sort key of missing_ids_sorted
LastSeen(self, mid) ==
    IF mid \in DOMAIN self.tracker_states
    THEN self.tracker_states[mid].last_seen_frame_index
    ELSE NeverFrame

\* the missing ids in the iteration order of the set, not sorted
SortedMissing_unsorted(self, missing_ids) ==
    {o \in [1..Cardinality(missing_ids) -> missing_ids] :
        \A i, j \in DOMAIN o : i # j => o[i] # o[j]}

\* sorted(list(missing_ids), key=..., reverse=True): most recently seen first;
\* markers of equal key keep the iteration order of the set, which is any
SortedMissing(self, missing_ids) ==
    {o \in [1..Cardinality(missing_ids) -> missing_ids] :
        /\ \A i, j \in DOMAIN o : i # j => o[i] # o[j]
        /\ \A i, j \in DOMAIN o : i < j => LastSeen(self, o[i]) >= LastSeen(self, o[j])}

\* the ids of a dict in the order the direct records are appended
RECURSIVE KeySeq(_)
KeySeq(S) == IF S = {} THEN <<>>
             ELSE LET k == SetMin(S) IN <<k>> \o KeySeq(S \ {k})

DirectInfo(marker_id) == [marker_id |-> marker_id, source |-> "aruco", inliers |-> 0]

\* the missing set taken from every known marker, expected or not
MissingIds_ignore_expected(detected, expected) == Markers \ DOMAIN detected

\* the missing set without the detected ids taken out
MissingIds_all(detected, expected) == expected

\* the missing set of recover_missing
MissingIds(detected, expected) == expected \ DOMAIN detected

\* the instance as the methods see it
Self ==
    [enabled |-> enabled, cfg |-> cfg, aruco_detector |-> aruco_detector,
     templates |-> templates, current_frame_index |-> current_frame_index,
     tracker_states |-> tracker_states, last_reacquire_frame |-> last_reacquire_frame]

\* the tracker-state update done before the frame counter is incremented
UpdateTrackers_stale_index(self, detected) ==
    [m \in DOMAIN self.tracker_states \cup DOMAIN detected |->
        IF m \in DOMAIN detected
        THEN [marker_id |-> m, last_corners |-> detected[m],
              last_seen_frame_index |-> self.current_frame_index - 1,
              last_frame_gray |-> TRUE]
        ELSE self.tracker_states[m]]

\* the tracker-state update stamping the frame after the current one
UpdateTrackers_future_index(self, detected) ==
    [m \in DOMAIN self.tracker_states \cup DOMAIN detected |->
        IF m \in DOMAIN detected
        THEN [marker_id |-> m, last_corners |-> detected[m],
              last_seen_frame_index |-> self.current_frame_index + 1,
              last_frame_gray |-> TRUE]
        ELSE self.tracker_states[m]]

\* the tracker-state update of recover_missing for the detected markers
UpdateTrackers(self, detected) ==
    [m \in DOMAIN self.tracker_states \cup DOMAIN detected |->
        IF m \in DOMAIN detected
        THEN [marker_id |-> m, last_corners |-> detected[m],
              last_seen_frame_index |-> self.current_frame_index,
              last_frame_gray |-> TRUE]
        ELSE self.tracker_states[m]]

\* the detected mappings and expected sets a caller passes
DetectedDicts == UNION {[S -> DetQuads] : S \in SUBSET Markers}
ExpectedSets == {Markers, {1}}
\* the detected mappings of a camera that sees the markers at one place
PairDicts == {d \in DetectedDicts : \A m \in DOMAIN d : d[m] = QuadA}

\* the caller's mapping after a call that wrote updated into its copy
CallerDict_aliased(detected, updated) == updated

\* updated_dict = detected_dict.copy(): the writes of the recovery loop go to
\* the copy, the caller's mapping stays as passed
CallerDict(detected, updated) == detected

\* the disabled path counting the frame before it returns
RecoverDisabled_counting(detected, expected) ==
    /\ pc = "idle"
    /\ ~enabled
    /\ current_frame_index < MaxFrame
    /\ pc' = "returned"
    /\ call_args' = [detected |-> detected, expected |-> expected]
    /\ detected_dict' = detected
    /\ expected_ids' = expected
    /\ updated_dict' = detected
    /\ debug_info' = <<>>
    /\ attempts' = <<>>
    /\ current_frame_index' = current_frame_index + 1
    /\ UNCHANGED <<enabled, cfg, aruco_detector, templates,
                   tracker_states, last_reacquire_frame, last_matcher_frame,
                   init_failure, other, worker, facade, history>>

\* LightGlueFallback.recover_missing on a disabled instance
RecoverDisabled(detected, expected) ==
    /\ pc = "idle"
    /\ ~enabled
    /\ pc' = "returned"
    /\ call_args' = [detected |-> detected, expected |-> expected]
    /\ detected_dict' = detected
    /\ expected_ids' = expected
    /\ updated_dict' = detected
    /\ debug_info' = <<>>
    /\ attempts' = <<>>
    /\ UNCHANGED <<enabled, cfg, aruco_detector, templates, current_frame_index,
                   tracker_states, last_reacquire_frame, last_matcher_frame,
                   init_failure, other, worker, facade, history>>

\* recover_missing refreshing the TrackerState of the recovered markers too
recover_missing_refresh_recovered(self0, detected, expected) ==
    LET counted == [self0 EXCEPT !.current_frame_index = self0.current_frame_index + 1]
        self == [counted EXCEPT !.tracker_states = UpdateTrackers(counted, detected)]
        direct == [i \in 1..Cardinality(DOMAIN detected) |->
                     DirectInfo(KeySeq(DOMAIN detected)[i])]
        missing_ids == MissingIds(detected, expected)
        start == [updated_dict |-> detected, debug_info |-> direct,
                  recovery_attempts |-> 0,
                  last_reacquire_frame |-> self.last_reacquire_frame,
                  attempts |-> <<>>]
    IN  UNION {{[self |-> [self EXCEPT !.last_reacquire_frame = fin.last_reacquire_frame,
                                      !.tracker_states =
                                          UpdateTrackers(self, fin.updated_dict)],
                 updated_dict |-> fin.updated_dict,
                 debug_info |-> fin.debug_info,
                 attempts |-> fin.attempts] :
                    fin \in RecoveryLoop(self, missing_ids_sorted, 1, start)} :
                missing_ids_sorted \in SortedMissing(self, missing_ids)}

\* LightGlueFallback.recover_missing on an enabled instance self0, as a
\* function of the instance: the set of what a call can leave, the instance
\* after the call with the mapping and list returned and the trace of the
\* _recover_marker calls made
recover_missing(self0, detected, expected) ==
    LET counted == [self0 EXCEPT !.current_frame_index = self0.current_frame_index + 1]
        self == [counted EXCEPT !.tracker_states = UpdateTrackers(counted, detected)]
        direct == [i \in 1..Cardinality(DOMAIN detected) |->
                     DirectInfo(KeySeq(DOMAIN detected)[i])]
        missing_ids == MissingIds(detected, expected)
        start == [updated_dict |-> detected, debug_info |-> direct,
                  recovery_attempts |-> 0,
                  last_reacquire_frame |-> self.last_reacquire_frame,
                  attempts |-> <<>>]
    IN  UNION {{[self |-> [self EXCEPT !.last_reacquire_frame = fin.last_reacquire_frame],
                 updated_dict |-> fin.updated_dict,
                 debug_info |-> fin.debug_info,
                 attempts |-> fin.attempts] :
                    fin \in RecoveryLoop(self, missing_ids_sorted, 1, start)} :
                missing_ids_sorted \in SortedMissing(self, missing_ids)}

\* the tracker states of a sibling instance being the caller's dict
SiblingAfter_shared_trackers(sibling, caller) ==
    [sibling EXCEPT !.tracker_states = caller.tracker_states]

\* another instance after a call on this one: __init__ binds a new dict to
\* every attribute of an instance, a call writes only to self
SiblingAfter(sibling, caller) == sibling

\* per marker, the last direct detection and the last tracked result after a
\* call on detected that returned ret
HistoryAfter(detected, ret) ==
    [m \in Markers |->
        IF m \in DOMAIN detected
        THEN [history[m] EXCEPT !.direct_frame = ret.self.current_frame_index,
                                !.direct_corners = detected[m]]
        ELSE IF \E k \in DOMAIN ret.attempts :
                   /\ ret.attempts[k].marker_id = m
                   /\ ret.attempts[k].returned = "lg_track"
                   /\ m \in DOMAIN ret.updated_dict
             THEN [history[m] EXCEPT !.tracked_frame = ret.self.current_frame_index]
             ELSE history[m]]

\* what a call that returned ret leaves in the instance, its sibling and the
\* caller
CallReturns(detected, expected, ret) ==
    /\ current_frame_index' = ret.self.current_frame_index
    /\ tracker_states' = ret.self.tracker_states
    /\ last_reacquire_frame' = ret.self.last_reacquire_frame
    /\ other' = SiblingAfter(other, ret.self)
    /\ call_args' = [detected |-> detected, expected |-> expected]
    /\ detected_dict' = CallerDict(detected, ret.updated_dict)
    /\ expected_ids' = expected
    /\ updated_dict' = ret.updated_dict
    /\ debug_info' = ret.debug_info
    /\ attempts' = ret.attempts
    /\ last_matcher_frame' =
          [m \in Markers |->
              IF \E k \in DOMAIN ret.attempts :
                    ret.attempts[k].marker_id = m /\ ret.attempts[k].matched
              THEN ret.self.current_frame_index
              ELSE last_matcher_frame[m]]

\* LightGlueFallback.recover_missing on an enabled instance
RecoverEnabled(detected, expected) ==
    /\ pc = "idle"
    /\ enabled
    /\ current_frame_index < MaxFrame
    /\ pc' = "returned"
    /\ \E ret \in recover_missing(Self, detected, expected) :
          CallReturns(detected, expected, ret)
    /\ UNCHANGED <<enabled, cfg, aruco_detector, templates, init_failure,
                   worker, facade, history>>

\* recover_missing on an enabled instance, with the history of each marker's
\* direct detections and tracked results kept
RecoverWithHistory(detected, expected) ==
    /\ pc = "idle"
    /\ enabled
    /\ current_frame_index < MaxFrame
    /\ pc' = "returned"
    /\ \E ret \in recover_missing(Self, detected, expected) :
          /\ CallReturns(detected, expected, ret)
          /\ history' = HistoryAfter(detected, ret)
    /\ UNCHANGED <<enabled, cfg, aruco_detector, templates, init_failure,
                   worker, facade>>

\* recover_missing on the second instance of the process; what it returns goes
\* to that instance's own caller
RecoverOther(detected, expected) ==
    /\ other.enabled
    /\ other.current_frame_index < PairFrames
    /\ \E ret \in recover_missing(other, detected, expected) :
          /\ other' = ret.self
          /\ LET sibling == SiblingAfter(Self, ret.self)
             IN  /\ current_frame_index' = sibling.current_frame_index
                 /\ tracker_states' = sibling.tracker_states
                 /\ last_reacquire_frame' = sibling.last_reacquire_frame
                 /\ templates' = sibling.templates
    /\ UNCHANGED <<enabled, cfg, aruco_detector, init_failure, call_args, detected_dict,
                   expected_ids, updated_dict, debug_info, attempts,
                   last_matcher_frame, pc, worker, facade, history>>

\* the markers with an id_<ID>.png file in the template directory
TemplateFiles == {m \in Markers : m % 2 = 1}

\* the frame loop of the caller between two calls: it takes the returned
\* mapping and list and goes on to the next frame
CallerTakesResult ==
    /\ pc = "returned"
    /\ pc' = "idle"
    /\ call_args' = [detected |-> EmptyDict, expected |-> {}]
    /\ detected_dict' = EmptyDict
    /\ expected_ids' = {}
    /\ updated_dict' = EmptyDict
    /\ debug_info' = <<>>
    /\ attempts' = <<>>
    /\ UNCHANGED <<enabled, cfg, aruco_detector, templates, current_frame_index,
                   tracker_states, last_reacquire_frame, last_matcher_frame,
                   init_failure, other, worker, facade, history>>

\* ------------------------------------------------------- CameraWorker.run
\* the configurations of a worker: max_frames (0 is no limit), whether
\* duration_sec is set, and whether detection with the fallback is on (neither
\* no_detect nor dry_run, target_ids given)
WorkerConfigs == [max_frames : 0..WorkerFrames, timed : BOOLEAN, detect : BOOLEAN]

\* self.outputs with every sink in state s
AllOutputs(s) == [i \in 1..WorkerOutputs |-> s]

\* CameraWorker.__init__: the worker before run() is called; frames_at_stop
\* keeps the frame count run() had reached when stop() was called
NewWorker(c) ==
    [pc |-> "new", max_frames |-> c.max_frames, timed |-> c.timed,
     detect |-> c.detect, stop |-> FALSE, expired |-> FALSE,
     frames |-> 0, errors |-> 0, lightglue_fallback |-> FALSE,
     cap |-> "new", outputs |-> AllOutputs("closed"), exit |-> "none",
     frames_processed |-> 0, frames_at_stop |-> 0]

\* no worker runs on the instance
NoWorker == NewWorker([max_frames |-> 0, timed |-> FALSE, detect |-> FALSE])

\* CameraWorker.stop, from any thread
WorkerStop ==
    /\ worker.pc \notin {"done", "raised"}
    /\ ~worker.stop
    /\ worker' = [worker EXCEPT !.stop = TRUE, !.frames_at_stop = worker.frames]
    /\ UNCHANGED <<enabled, cfg, aruco_detector, templates, current_frame_index,
                   tracker_states, last_reacquire_frame, init_failure, call_args,
                   detected_dict, expected_ids, updated_dict, debug_info, attempts,
                   last_matcher_frame, other, pc, facade, history>>

\* time.time() - t0 reaches duration_sec
Tick ==
    /\ worker.pc \in {"head", "body"}
    /\ worker.timed
    /\ ~worker.expired
    /\ worker' = [worker EXCEPT !.expired = TRUE]
    /\ UNCHANGED <<enabled, cfg, aruco_detector, templates, current_frame_index,
                   tracker_states, last_reacquire_frame, init_failure, call_args,
                   detected_dict, expected_ids, updated_dict, debug_info, attempts,
                   last_matcher_frame, other, pc, facade, history>>

\* run() up to the loop: the outputs are opened, the fallback is built when
\* config.lightglue.enabled (built tells whether its constructor returns), the
\* capture is started
WorkerStart(built) ==
    /\ worker.pc = "new"
    /\ worker' = [worker EXCEPT !.pc = "head", !.outputs = AllOutputs("open"),
                                !.cap = "started",
                                !.lightglue_fallback = cfg.enabled /\ built,
                                !.frames = 0, !.errors = 0]
    /\ UNCHANGED <<enabled, cfg, aruco_detector, templates, current_frame_index,
                   tracker_states, last_reacquire_frame, init_failure, call_args,
                   detected_dict, expected_ids, updated_dict, debug_info, attempts,
                   last_matcher_frame, other, pc, facade, history>>

\* run() up to the loop when cap.start() raises: the outputs are open and the
\* try block is not entered
WorkerStartFails ==
    /\ worker.pc = "new"
    /\ worker' = [worker EXCEPT !.pc = "raised", !.outputs = AllOutputs("open"),
                                !.exit = "exception"]
    /\ UNCHANGED <<enabled, cfg, aruco_detector, templates, current_frame_index,
                   tracker_states, last_reacquire_frame, init_failure, call_args,
                   detected_dict, expected_ids, updated_dict, debug_info, attempts,
                   last_matcher_frame, other, pc, facade, history>>

\* the head of the loop without the check of the stop flag
WorkerHead_no_stop_check ==
    /\ worker.pc = "head"
    /\ worker' =
          IF worker.timed /\ worker.expired
          THEN [worker EXCEPT !.pc = "finally", !.exit = "duration"]
          ELSE IF worker.max_frames # 0 /\ worker.frames >= worker.max_frames
          THEN [worker EXCEPT !.pc = "finally", !.exit = "max_frames"]
          ELSE [worker EXCEPT !.pc = "body"]
    /\ UNCHANGED <<enabled, cfg, aruco_detector, templates, current_frame_index,
                   tracker_states, last_reacquire_frame, init_failure, call_args,
                   detected_dict, expected_ids, updated_dict, debug_info, attempts,
                   last_matcher_frame, other, pc, facade, history>>

\* the three checks at the head of the loop
WorkerHead ==
    /\ worker.pc = "head"
    /\ worker' =
          IF worker.stop
          THEN [worker EXCEPT !.pc = "finally", !.exit = "stop"]
          ELSE IF worker.timed /\ worker.expired
          THEN [worker EXCEPT !.pc = "finally", !.exit = "duration"]
          ELSE IF worker.max_frames # 0 /\ worker.frames >= worker.max_frames
          THEN [worker EXCEPT !.pc = "finally", !.exit = "max_frames"]
          ELSE [worker EXCEPT !.pc = "body"]
    /\ UNCHANGED <<enabled, cfg, aruco_detector, templates, current_frame_index,
                   tracker_states, last_reacquire_frame, init_failure, call_args,
                   detected_dict, expected_ids, updated_dict, debug_info, attempts,
                   last_matcher_frame, other, pc, facade, history>>

\* cap.next_frame() returns None: the read is counted as an error, up to
\* MaxErrors, and the loop goes on without counting a frame
WorkerReadFails ==
    /\ worker.pc = "body"
    /\ worker' = [worker EXCEPT !.pc = "head",
                                !.errors = Min2(worker.errors + 1, MaxErrors)]
    /\ UNCHANGED <<enabled, cfg, aruco_detector, templates, current_frame_index,
                   tracker_states, last_reacquire_frame, init_failure, call_args,
                   detected_dict, expected_ids, updated_dict, debug_info, attempts,
                   last_matcher_frame, other, pc, facade, history>>

\* per marker, the last frame in which the matcher ran, after a call that
\* returned ret
MatcherFramesAfter(ret) ==
    [m \in Markers |->
        IF \E k \in DOMAIN ret.attempts :
              ret.attempts[k].marker_id = m /\ ret.attempts[k].matched
        THEN ret.self.current_frame_index
        ELSE last_matcher_frame[m]]

\* the body of the loop on a frame the capture delivered, of which it has
\* WorkerFrames: detection, the fallback's recover_missing on what was
\* detected, poses and outputs, then frames += 1
WorkerFrame ==
    /\ worker.pc = "body"
    /\ worker.frames < WorkerFrames
    /\ worker' = [worker EXCEPT !.pc = "head", !.frames = worker.frames + 1]
    /\ IF worker.detect /\ worker.lightglue_fallback /\ enabled
       THEN \E detected \in PairDicts :
            \E ret \in recover_missing(Self, detected, Markers) :
               /\ current_frame_index' = ret.self.current_frame_index
               /\ tracker_states' = ret.self.tracker_states
               /\ last_reacquire_frame' = ret.self.last_reacquire_frame
               /\ call_args' = [detected |-> detected, expected |-> Markers]
               /\ detected_dict' = CallerDict(detected, ret.updated_dict)
               /\ expected_ids' = Markers
               /\ updated_dict' = ret.updated_dict
               /\ debug_info' = ret.debug_info
               /\ attempts' = ret.attempts
               /\ last_matcher_frame' = MatcherFramesAfter(ret)
       ELSE UNCHANGED <<current_frame_index, tracker_states, last_reacquire_frame,
                        call_args, detected_dict, expected_ids, updated_dict,
                        debug_info, attempts, last_matcher_frame>>
    /\ UNCHANGED <<enabled, cfg, aruco_detector, templates, init_failure,
                   other, pc, facade, history>>

\* the body of the loop when a call in it raises: the exception leaves the
\* loop through the finally block
WorkerFrameRaises ==
    /\ worker.pc = "body"
    /\ worker' = [worker EXCEPT !.pc = "finally", !.exit = "exception"]
    /\ UNCHANGED <<enabled, cfg, aruco_detector, templates, current_frame_index,
                   tracker_states, last_reacquire_frame, init_failure, call_args,
                   detected_dict, expected_ids, updated_dict, debug_info, attempts,
                   last_matcher_frame, other, pc, facade, history>>

\* the finally block with one try around the whole cleanup: a cap.stop() that
\* raises leaves the outputs open, an out.close() that raises the later ones
WorkerFinally_one_try(stop_ok, close_ok) ==
    /\ worker.pc = "finally"
    /\ worker' = [worker EXCEPT
                    !.pc = IF worker.exit = "exception" THEN "raised" ELSE "done",
                    !.cap = IF stop_ok THEN "stopped" ELSE "stop_failed",
                    !.outputs = [i \in 1..WorkerOutputs |->
                                    IF ~stop_ok \/ \E j \in 1..(i - 1) : ~close_ok[j]
                                    THEN "open"
                                    ELSE IF close_ok[i] THEN "closed" ELSE "close_failed"],
                    !.frames_processed =
                        IF worker.exit = "exception" THEN 0 ELSE worker.frames]
    /\ UNCHANGED <<enabled, cfg, aruco_detector, templates, current_frame_index,
                   tracker_states, last_reacquire_frame, init_failure, call_args,
                   detected_dict, expected_ids, updated_dict, debug_info, attempts,
                   last_matcher_frame, other, pc, facade, history>>

\* the finally block and the summary: cap.stop() is called, then close() on
\* every output, each in its own try (stop_ok and close_ok tell which of them
\* return), then run returns the summary or the exception goes on to the
\* caller
WorkerFinally(stop_ok, close_ok) ==
    /\ worker.pc = "finally"
    /\ worker' = [worker EXCEPT
                    !.pc = IF worker.exit = "exception" THEN "raised" ELSE "done",
                    !.cap = IF stop_ok THEN "stopped" ELSE "stop_failed",
                    !.outputs = [i \in 1..WorkerOutputs |->
                                    IF close_ok[i] THEN "closed" ELSE "close_failed"],
                    !.frames_processed =
                        IF worker.exit = "exception" THEN 0 ELSE worker.frames]
    /\ UNCHANGED <<enabled, cfg, aruco_detector, templates, current_frame_index,
                   tracker_states, last_reacquire_frame, init_failure, call_args,
                   detected_dict, expected_ids, updated_dict, debug_info, attempts,
                   last_matcher_frame, other, pc, facade, history>>

\* ------------------------------------------- CameraPipelineFacade.run_session
\* the configurations of a facade: whether a publisher is given and whether
\* durationSec is set
FacadeConfigs == [publisher : BOOLEAN, timed : BOOLEAN]

\* CameraPipelineFacade.__init__; sent is what the publisher received in the
\* current session, in order
NewFacade(c) ==
    [pc |-> "new", publisher |-> c.publisher, timed |-> c.timed, expired |-> FALSE,
     frames |-> 0, errors |-> 0, _published_header |-> FALSE, sent |-> <<>>,
     sessions |-> 0, cap |-> "new", csv_local |-> "new", raising |-> FALSE]

\* no facade runs
NoFacade == NewFacade([publisher |-> FALSE, timed |-> FALSE])

\* CameraPipelineFacade._publish_header_once on the facade st; ok tells whether
\* publisher.publish returns
_publish_header_once(st, ok) ==
    IF st.publisher /\ ~st._published_header
    THEN IF ok
         THEN [st EXCEPT !.sent = Append(st.sent, "header"), !._published_header = TRUE]
         ELSE st
    ELSE st

\* the publishing of one detection's line: the header if due, then the line;
\* o tells which of the two publish calls return
PublishDetection(st, o) ==
    IF st.publisher
    THEN LET with_header == _publish_header_once(st, o.header_ok)
         IN  IF o.data_ok
             THEN [with_header EXCEPT !.sent = Append(with_header.sent, "data")]
             ELSE with_header
    ELSE st

\* the loop over the detections of a frame, from detection i on
RECURSIVE PublishAll(_, _, _)
PublishAll(st, outcomes, i) ==
    IF i > Len(outcomes) THEN st
    ELSE PublishAll(PublishDetection(st, outcomes[i]), outcomes, i + 1)

\* what the publish calls can do for the target detections of one frame
PublishOutcomes ==
    UNION {[1..n -> [header_ok : BOOLEAN, data_ok : BOOLEAN]] : n \in 0..FacadeDets}

\* run_session up to the loop; the header flag is the object's and is left as
\* the session before left it
FacadeStart ==
    /\ facade.pc \in {"new", "done", "raised"}
    /\ facade.sessions < FacadeSessions
    /\ facade' = [facade EXCEPT !.pc = "head", !.sessions = facade.sessions + 1,
                                !.frames = 0, !.errors = 0, !.expired = FALSE,
                                !.sent = <<>>, !.cap = "started",
                                !.csv_local = "open", !.raising = FALSE]
    /\ UNCHANGED <<enabled, cfg, aruco_detector, templates, current_frame_index,
                   tracker_states, last_reacquire_frame, init_failure, call_args,
                   detected_dict, expected_ids, updated_dict, debug_info, attempts,
                   last_matcher_frame, other, pc, worker, history>>

\* time.time() - t0 reaches durationSec
FacadeTick ==
    /\ facade.pc \in {"head", "body"}
    /\ facade.timed
    /\ ~facade.expired
    /\ facade' = [facade EXCEPT !.expired = TRUE]
    /\ UNCHANGED <<enabled, cfg, aruco_detector, templates, current_frame_index,
                   tracker_states, last_reacquire_frame, init_failure, call_args,
                   detected_dict, expected_ids, updated_dict, debug_info, attempts,
                   last_matcher_frame, other, pc, worker, history>>

\* the duration check at the head of the loop
FacadeHead ==
    /\ facade.pc = "head"
    /\ facade' = IF facade.timed /\ facade.expired
                 THEN [facade EXCEPT !.pc = "finally"]
                 ELSE [facade EXCEPT !.pc = "body"]
    /\ UNCHANGED <<enabled, cfg, aruco_detector, templates, current_frame_index,
                   tracker_states, last_reacquire_frame, init_failure, call_args,
                   detected_dict, expected_ids, updated_dict, debug_info, attempts,
                   last_matcher_frame, other, pc, worker, history>>

\* cap.next_frame() returns None
FacadeReadFails ==
    /\ facade.pc = "body"
    /\ facade' = [facade EXCEPT !.pc = "head",
                                !.errors = Min2(facade.errors + 1, MaxErrors)]
    /\ UNCHANGED <<enabled, cfg, aruco_detector, templates, current_frame_index,
                   tracker_states, last_reacquire_frame, init_failure, call_args,
                   detected_dict, expected_ids, updated_dict, debug_info, attempts,
                   last_matcher_frame, other, pc, worker, history>>

\* the body of the loop on a frame the capture delivered, of which it has
\* FacadeFrames: one CSV row and one published line per target detection
FacadeFrame(outcomes) ==
    /\ facade.pc = "body"
    /\ facade.frames < FacadeFrames
    /\ LET done == PublishAll(facade, outcomes, 1)
       IN  facade' = [done EXCEPT !.pc = "head", !.frames = facade.frames + 1]
    /\ UNCHANGED <<enabled, cfg, aruco_detector, templates, current_frame_index,
                   tracker_states, last_reacquire_frame, init_failure, call_args,
                   detected_dict, expected_ids, updated_dict, debug_info, attempts,
                   last_matcher_frame, other, pc, worker, history>>

\* the body of the loop when a call outside the publishing raises
FacadeFrameRaises ==
    /\ facade.pc = "body"
    /\ facade' = [facade EXCEPT !.pc = "finally", !.raising = TRUE]
    /\ UNCHANGED <<enabled, cfg, aruco_detector, templates, current_frame_index,
                   tracker_states, last_reacquire_frame, init_failure, call_args,
                   detected_dict, expected_ids, updated_dict, debug_info, attempts,
                   last_matcher_frame, other, pc, worker, history>>

\* the finally block and the summary: cap.stop(), then csv_local.close(), each
\* in its own try (stop_ok and close_ok tell which of them return)
FacadeFinally(stop_ok, close_ok) ==
    /\ facade.pc = "finally"
    /\ facade' = [facade EXCEPT !.pc = IF facade.raising THEN "raised" ELSE "done",
                                !.cap = IF stop_ok THEN "stopped" ELSE "stop_failed",
                                !.csv_local = IF close_ok THEN "closed"
                                              ELSE "close_failed"]
    /\ UNCHANGED <<enabled, cfg, aruco_detector, templates, current_frame_index,
                   tracker_states, last_reacquire_frame, init_failure, call_args,
                   detected_dict, expected_ids, updated_dict, debug_info, attempts,
                   last_matcher_frame, other, pc, worker, history>>

\* the configurations an instance is built with
Cfgs ==
    [enabled : BOOLEAN, verify_id : BOOLEAN, corner_refine : BOOLEAN,
     max_fallback_markers_per_frame : 0..MaxCap,
     max_age_frames : {AgeFrames},
     reacquire_interval_frames : {IntervalFrames, LongInterval},
     min_inliers : {Inliers},
     roi_expand_px : {RoiPx},
     prefer_roi_matching : {TRUE}]

\* __init__ leaving the instance enabled when an import fails
Construct_import_ignored(lightglue_cfg, torch_ok, lightglue_ok, detector_ok, dir_exists, files) ==
    LET on == lightglue_cfg.enabled
    IN  [enabled |-> on,
         failure |-> IF ~lightglue_cfg.enabled THEN "none"
                     ELSE IF ~torch_ok THEN "torch"
                     ELSE IF ~lightglue_ok THEN "lightglue"
                     ELSE IF ~dir_exists THEN "template_dir"
                     ELSE "none",
         cfg |-> lightglue_cfg,
         aruco_detector |-> on /\ lightglue_cfg.verify_id /\ detector_ok,
         templates |-> IF on /\ dir_exists THEN files ELSE {},
         current_frame_index |-> 0,
         tracker_states |-> EmptyDict,
         last_reacquire_frame |-> EmptyDict]

\* LightGlueFallback.__init__ with _init_aruco_detector and _load_templates:
\* torch_ok and lightglue_ok tell whether the imports succeed, detector_ok
\* whether build_detector yields a detector, dir_exists and files what the
\* template directory holds
Construct(lightglue_cfg, torch_ok, lightglue_ok, detector_ok, dir_exists, files) ==
    LET on == lightglue_cfg.enabled /\ torch_ok /\ lightglue_ok
    IN  [enabled |-> on,
         failure |-> IF ~lightglue_cfg.enabled THEN "none"
                     ELSE IF ~torch_ok THEN "torch"
                     ELSE IF ~lightglue_ok THEN "lightglue"
                     ELSE IF ~dir_exists THEN "template_dir"
                     ELSE "none",
         cfg |-> lightglue_cfg,
         aruco_detector |-> on /\ lightglue_cfg.verify_id /\ detector_ok,
         templates |-> IF on /\ dir_exists THEN files ELSE {},
         current_frame_index |-> 0,
         tracker_states |-> EmptyDict,
         last_reacquire_frame |-> EmptyDict]

\* the configuration of the instances of a two-camera process
PairCfg ==
    [enabled |-> TRUE, verify_id |-> TRUE, corner_refine |-> FALSE,
     max_fallback_markers_per_frame |-> MaxCap,
     max_age_frames |-> AgeFrames,
     reacquire_interval_frames |-> IntervalFrames,
     min_inliers |-> Inliers,
     roi_expand_px |-> RoiPx,
     prefer_roi_matching |-> TRUE]

\* the configurations of a session whose history is kept
HistoryCfgs ==
    {[PairCfg EXCEPT !.prefer_roi_matching = p, !.roi_expand_px = r] :
        p \in BOOLEAN, r \in {0, RoiPx}}

\* the second instance as constructed
OtherInit ==
    LET self == Construct(PairCfg, TRUE, TRUE, TRUE, TRUE, TemplateFiles)
    IN  [enabled |-> self.enabled, cfg |-> self.cfg,
         aruco_detector |-> self.aruco_detector, templates |-> self.templates,
         current_frame_index |-> self.current_frame_index,
         tracker_states |-> self.tracker_states,
         last_reacquire_frame |-> self.last_reacquire_frame]

\* a marker that was neither detected nor tracked so far
NeverSeen == [direct_frame |-> NeverFrame, direct_corners |-> None,
              tracked_frame |-> NeverFrame]

\* the instance self as constructed, before any call
FallbackInit(self) ==
    /\ enabled = self.enabled
    /\ cfg = self.cfg
    /\ aruco_detector = self.aruco_detector
    /\ templates = self.templates
    /\ current_frame_index = self.current_frame_index
    /\ tracker_states = self.tracker_states
    /\ last_reacquire_frame = self.last_reacquire_frame
    /\ init_failure = self.failure
    /\ call_args = [detected |-> EmptyDict, expected |-> {}]
    /\ detected_dict = EmptyDict
    /\ expected_ids = {}
    /\ updated_dict = EmptyDict
    /\ debug_info = <<>>
    /\ attempts = <<>>
    /\ last_matcher_frame = [m \in Markers |-> NeverFrame]
    /\ other = OtherInit
    /\ pc = "idle"
    /\ history = [m \in Markers |-> NeverSeen]

Init ==
    /\ \E c \in Cfgs, torch_ok, lightglue_ok, detector_ok, dir_exists \in BOOLEAN,
          files \in {TemplateFiles} :
           FallbackInit(Construct(c, torch_ok, lightglue_ok, detector_ok, dir_exists, files))
    /\ worker = NoWorker
    /\ facade = NoFacade

Next ==
    \/ \E detected \in DetectedDicts, expected \in ExpectedSets :
          RecoverEnabled(detected, expected)
    \/ \E detected \in DetectedDicts, expected \in ExpectedSets :
          RecoverDisabled(detected, expected)
    \/ CallerTakesResult

Spec == Init /\ [][Next]_vars

\* two instances in one process, one per camera, called in any order
InitPair == Init /\ cfg = PairCfg /\ enabled /\ templates # {} /\ aruco_detector

NextPair ==
    \/ \E detected \in PairDicts :
          current_frame_index < PairFrames /\ RecoverEnabled(detected, Markers)
    \/ \E detected \in PairDicts : RecoverOther(detected, Markers)
    \/ CallerTakesResult

SpecPair == InitPair /\ [][NextPair]_vars

\* a camera worker running a session on its own fallback instance
WorkerCfgs == {PairCfg, [PairCfg EXCEPT !.enabled = FALSE]}

InitWorker ==
    /\ \E c \in WorkerCfgs, torch_ok \in BOOLEAN :
          FallbackInit(Construct(c, torch_ok, TRUE, TRUE, TRUE, TemplateFiles))
    /\ worker \in {NewWorker(c) : c \in WorkerConfigs}
    /\ facade = NoFacade

\* the steps of the thread that executes run(), in a session whose cleanup
\* calls all return
WorkerRun ==
    \/ \E built \in BOOLEAN : WorkerStart(built)
    \/ WorkerStartFails
    \/ WorkerHead
    \/ WorkerReadFails
    \/ WorkerFrame
    \/ WorkerFrameRaises
    \/ WorkerFinally(TRUE, [i \in 1..WorkerOutputs |-> TRUE])

NextWorker ==
    \/ \E built \in BOOLEAN : WorkerStart(built)
    \/ WorkerStartFails
    \/ WorkerHead
    \/ WorkerReadFails
    \/ WorkerFrame
    \/ WorkerFrameRaises
    \/ WorkerFinally(TRUE, [i \in 1..WorkerOutputs |-> TRUE])
    \/ WorkerStop
    \/ Tick

\* the thread of run() keeps executing and the clock advances; nothing makes
\* another thread call stop() or the capture deliver a frame
SpecWorker ==
    InitWorker /\ [][NextWorker]_vars /\ WF_vars(WorkerRun) /\ WF_vars(Tick)

\* a facade running sessions
InitFacade ==
    /\ FallbackInit(Construct(PairCfg, TRUE, TRUE, TRUE, TRUE, TemplateFiles))
    /\ worker = NoWorker
    /\ facade \in {NewFacade(c) : c \in FacadeConfigs}

NextFacade ==
    \/ FacadeStart
    \/ FacadeTick
    \/ FacadeHead
    \/ FacadeReadFails
    \/ \E outcomes \in PublishOutcomes : FacadeFrame(outcomes)
    \/ FacadeFrameRaises
    \/ \E stop_ok \in BOOLEAN, close_ok \in BOOLEAN : FacadeFinally(stop_ok, close_ok)

SpecFacade == InitFacade /\ [][NextFacade]_vars

\* a worker session and facade sessions of one process, each with a frame
\* limit or a duration, the fallback off and no publisher given
InitCleanup ==
    /\ FallbackInit(Construct([PairCfg EXCEPT !.enabled = FALSE],
                              TRUE, TRUE, TRUE, TRUE, TemplateFiles))
    /\ worker = NewWorker([max_frames |-> 1, timed |-> TRUE, detect |-> FALSE])
    /\ facade = NewFacade([publisher |-> FALSE, timed |-> TRUE])

\* the steps of both sessions; each cleanup call returns or raises
NextCleanup ==
    \/ \E built \in BOOLEAN : WorkerStart(built)
    \/ WorkerStartFails
    \/ WorkerHead
    \/ WorkerReadFails
    \/ WorkerFrame
    \/ WorkerFrameRaises
    \/ \E stop_ok \in BOOLEAN, close_ok \in [1..WorkerOutputs -> BOOLEAN] :
          WorkerFinally(stop_ok, close_ok)
    \/ WorkerStop
    \/ Tick
    \/ NextFacade

SpecCleanup == InitCleanup /\ [][NextCleanup]_vars

\* one instance over a session in which the caller keeps, per marker, when it
\* was last detected and last tracked
InitHistory ==
    /\ \E c \in HistoryCfgs, detector_ok \in BOOLEAN :
          FallbackInit(Construct(c, TRUE, TRUE, detector_ok, TRUE, TemplateFiles))
    /\ worker = NoWorker
    /\ facade = NoFacade

NextHistory ==
    \/ \E detected \in DetectedDicts : RecoverWithHistory(detected, Markers)
    \/ CallerTakesResult

SpecHistory == InitHistory /\ [][NextHistory]_vars

\* ------------------------------------------------- match_quality of a record
\* the err array of cv2.calcOpticalFlowPyrLK: None, or one error per corner,
\* each a non-negative patch difference in hundredths
FlowErrs == {None} \cup [1..4 -> {0, QScale, 2 * QScale}]

RECURSIVE SeqSum(_)
SeqSum(s) == IF s = <<>> THEN 0 ELSE Head(s) + SeqSum(Tail(s))

\* err.mean()
Mean(err) == SeqSum(err) \div Len(err)

\* the valid matches and the RANSAC inliers among them of a re-acquisition
\* that passes both min_inliers checks
MatchCounts ==
    {[valid |-> v, inliers |-> i] :
        v \in cfg.min_inliers..(cfg.min_inliers + 2),
        i \in cfg.min_inliers..(cfg.min_inliers + 2)}

\* match_quality of a tracked record: 1.0 - err.mean() if err is not None
\* else 1.0
TrackQuality(err) ==
    IF err # None THEN QScale - Mean(err) ELSE QScale

\* match_quality of a re-acquired record: inliers / valid.sum() if
\* valid.sum() > 0 else 0.0
ReacquireQuality(inliers, valid) ==
    IF valid > 0 THEN (inliers * QScale) \div valid ELSE 0

\* the record of a directly detected marker
DirectRecord(marker_id) ==
    [marker_id |-> marker_id, source |-> "aruco", inliers |-> 0,
     match_quality |-> QScale]

\* the record _track_marker returns with its corners
TrackRecord(marker_id, err) ==
    [marker_id |-> marker_id, source |-> "lg_track", inliers |-> 4,
     match_quality |-> TrackQuality(err)]

\* the record _reacquire_from_template returns with its corners
ReacquireRecord(marker_id, inliers, valid) ==
    [marker_id |-> marker_id, source |-> "lg_reacquire", inliers |-> inliers,
     match_quality |-> ReacquireQuality(inliers, valid)]

\* a record is appended to the call's debug_info
Record(info) ==
    /\ Len(debug_info) < QualityRecords
    /\ debug_info' = Append(debug_info, info)
    /\ UNCHANGED <<enabled, cfg, aruco_detector, templates, current_frame_index,
                   tracker_states, last_reacquire_frame, init_failure, call_args,
                   detected_dict, expected_ids, updated_dict, attempts,
                   last_matcher_frame, other, pc, worker, facade, history>>

RecordDirect == \E m \in Markers : Record(DirectRecord(m))

RecordTracked == \E m \in Markers, err \in FlowErrs : Record(TrackRecord(m, err))

RecordReacquired ==
    \E m \in Markers, c \in MatchCounts :
        c.inliers <= c.valid /\ Record(ReacquireRecord(m, c.inliers, c.valid))

\* one instance whose attempt records are followed with their match_quality
InitQuality ==
    /\ FallbackInit(Construct(PairCfg, TRUE, TRUE, TRUE, TRUE, TemplateFiles))
    /\ worker = NoWorker
    /\ facade = NoFacade

NextQuality == RecordDirect \/ RecordTracked \/ RecordReacquired

SpecQuality == InitQuality /\ [][NextQuality]_vars

\* ------------------------------------------------------------------ claims
\* the markers the last call recovered, and those it attempted
Recovered == DOMAIN updated_dict \ DOMAIN detected_dict
Attempted == {attempts[k].marker_id : k \in DOMAIN attempts}
Missing == expected_ids \ DOMAIN detected_dict
RecordsOf(m) == {k \in DOMAIN debug_info : debug_info[k].marker_id = m}
\* verification is enabled and a detector decodes the patch
VerifyActive == cfg.verify_id /\ aruco_detector

\* C1: every marker of the input detected mapping is in the returned mapping
\* with exactly its input corners; no recovered result replaces it.
C1_DirectNeverOverwritten ==
    \A m \in DOMAIN detected_dict :
        m \in DOMAIN updated_dict /\ updated_dict[m] = detected_dict[m]

C1_Witness ==
    /\ enabled
    /\ DOMAIN detected_dict # {}
    /\ Recovered # {}

\* C2: a call invokes _recover_marker at most max_fallback_markers_per_frame
\* times, and the missing markers it does not attempt stay out of the output.
C2_AttemptsCapped ==
    /\ Len(attempts) <= cfg.max_fallback_markers_per_frame
    /\ \A m \in Missing \ Attempted : m \notin DOMAIN updated_dict

C2_Witness ==
    /\ enabled
    /\ cfg.max_fallback_markers_per_frame > 0
    /\ Cardinality(Missing) > cfg.max_fallback_markers_per_frame
    /\ Len(attempts) = cfg.max_fallback_markers_per_frame

\* C3 (as claimed): two runs of the template matcher for one marker are at
\* least reacquire_interval_frames frames apart, whether or not the earlier
\* one produced a candidate.
C3_MatcherRunsSpaced ==
    [][\A m \in Markers :
          (last_matcher_frame'[m] # last_matcher_frame[m]
              /\ last_matcher_frame[m] # NeverFrame)
          => last_matcher_frame'[m] - last_matcher_frame[m]
                >= cfg.reacquire_interval_frames]_vars

\* C4: the motion tracker is invoked for a marker only if a TrackerState with
\* a snapshot exists for it and it was last seen at most max_age_frames ago.
C4_TrackOnlyYoung ==
    \A k \in DOMAIN attempts :
        attempts[k].tracked =>
            LET m == attempts[k].marker_id
            IN  /\ m \in DOMAIN tracker_states
                /\ tracker_states[m].last_frame_gray
                /\ current_frame_index - tracker_states[m].last_seen_frame_index
                      <= cfg.max_age_frames

C4_Witness ==
    \E k \in DOMAIN attempts :
        /\ attempts[k].tracked
        /\ current_frame_index - tracker_states[attempts[k].marker_id].last_seen_frame_index
              = cfg.max_age_frames

\* C5 (as claimed): with verification active, a marker one of whose
\* candidates did not decode to its id is absent from the returned mapping.
C5_BadDecodeLeavesMissing ==
    \A k \in DOMAIN attempts :
        (VerifyActive /\ attempts[k].bad_decode # {})
            => attempts[k].marker_id \notin DOMAIN updated_dict

\* C5 (amended): with verification active, a candidate that did not decode to
\* the marker's id is never the one merged; the marker is absent unless the
\* rejected candidate was the tracker's and the matcher's candidate was
\* accepted in the same frame.
C5_BadDecodeRejected ==
    \A k \in DOMAIN attempts :
        VerifyActive =>
            LET m == attempts[k].marker_id
            IN  /\ "lg_reacquire" \in attempts[k].bad_decode
                    => m \notin DOMAIN updated_dict
                /\ "lg_track" \in attempts[k].bad_decode
                    => \/ m \notin DOMAIN updated_dict
                       \/ \A i \in RecordsOf(m) : debug_info[i].source = "lg_reacquire"

C5_Witness ==
    /\ VerifyActive
    /\ \E k \in DOMAIN attempts :
          /\ "lg_track" \in attempts[k].bad_decode
          /\ attempts[k].marker_id \in DOMAIN updated_dict

\* C6 (as claimed): every recovered quad in the returned mapping is 4 points
\* of 2 coordinates inside [0, width) x [0, height).
C6_RecoveredInFrame ==
    \A m \in Recovered :
        IsQuad(updated_dict[m]) /\ ~OutOfFrame(updated_dict[m])

\* C7 (as claimed): every marker of the returned mapping, detected or
\* recovered, has its TrackerState set to this frame's corners and index.
C7_SeenUpdatesTracker ==
    enabled =>
        \A m \in DOMAIN updated_dict :
            /\ m \in DOMAIN tracker_states
            /\ tracker_states[m].last_seen_frame_index = current_frame_index
            /\ tracker_states[m].last_corners = updated_dict[m]

\* C7 (amended): a directly detected marker has its TrackerState set to this
\* frame's corners and index; a recovered marker keeps the TrackerState it
\* had, whose last_seen_frame_index is older than the current frame.
C7_DirectUpdatesTracker ==
    enabled =>
        /\ \A m \in DOMAIN detected_dict :
              /\ m \in DOMAIN tracker_states
              /\ tracker_states[m].last_seen_frame_index = current_frame_index
              /\ tracker_states[m].last_corners = detected_dict[m]
        /\ \A m \in Recovered :
              \/ m \notin DOMAIN tracker_states
              \/ tracker_states[m].last_seen_frame_index < current_frame_index

C7_Witness ==
    /\ enabled
    /\ \E m \in Recovered : m \in DOMAIN tracker_states
    /\ \E m \in DOMAIN detected_dict : detected_dict[m] = QuadB

\* a marker's TrackerState is young enough to track at frame index idx
Trackable(m, idx) ==
    /\ m \in DOMAIN tracker_states
    /\ tracker_states[m].last_frame_gray
    /\ idx - tracker_states[m].last_seen_frame_index <= cfg.max_age_frames

\* C8: a call leaves a missing expected marker without template and without
\* trackable state out of the returned mapping, records nothing for it and
\* changes neither its tracker state nor its last-reacquire frame.
C8_NoCapabilityNoEffect ==
    [][\A m \in Markers :
          (/\ m \in expected_ids' \ DOMAIN detected_dict'
           /\ m \notin templates
           /\ ~Trackable(m, current_frame_index'))
          => /\ m \notin DOMAIN updated_dict'
             /\ \A k \in DOMAIN debug_info' : debug_info'[k].marker_id # m
             /\ (m \in DOMAIN tracker_states') = (m \in DOMAIN tracker_states)
             /\ m \in DOMAIN tracker_states => tracker_states'[m] = tracker_states[m]
             /\ (m \in DOMAIN last_reacquire_frame') = (m \in DOMAIN last_reacquire_frame)
             /\ m \in DOMAIN last_reacquire_frame
                   => last_reacquire_frame'[m] = last_reacquire_frame[m]]_vars

C8_Witness ==
    \E k \in DOMAIN attempts :
        LET m == attempts[k].marker_id
        IN  /\ m \notin templates
            /\ ~attempts[k].tracked
            /\ m \in DOMAIN tracker_states
            /\ m \notin DOMAIN updated_dict

\* C9 (as claimed): the attempts list holds one record per detected marker
\* plus one per marker for which recovery was attempted.
C9_RecordPerAttempt ==
    enabled => Len(debug_info) = Cardinality(DOMAIN detected_dict) + Len(attempts)

\* C9 (amended): the attempts list holds one record with source direct per
\* detected marker, followed by one record per marker whose recovery was
\* merged into the output; an attempted recovery that fails adds none.
C9_RecordPerMerge ==
    enabled =>
        /\ Len(debug_info) = Cardinality(DOMAIN detected_dict) + Cardinality(Recovered)
        /\ \A k \in DOMAIN debug_info :
              (debug_info[k].source = "aruco") <=> (k <= Cardinality(DOMAIN detected_dict))
        /\ Cardinality(Recovered) <= Len(attempts)

C9_Witness ==
    /\ enabled
    /\ Recovered # {}
    /\ Cardinality(Recovered) < Len(attempts)

\* C10: on an enabled instance every marker of the returned mapping has
\* exactly one record, of source direct iff it was in the input and of source
\* tracked or reacquired otherwise, and every record is of such a marker.
C10_OneRecordPerMarker ==
    enabled =>
        /\ \A m \in DOMAIN updated_dict :
              /\ Cardinality(RecordsOf(m)) = 1
              /\ \A k \in RecordsOf(m) :
                    IF m \in DOMAIN detected_dict
                    THEN debug_info[k].source = "aruco"
                    ELSE debug_info[k].source \in {"lg_track", "lg_reacquire"}
        /\ \A k \in DOMAIN debug_info : debug_info[k].marker_id \in DOMAIN updated_dict

C10_Witness ==
    /\ enabled
    /\ \E k \in DOMAIN debug_info : debug_info[k].source = "aruco"
    /\ \E k \in DOMAIN debug_info : debug_info[k].source = "lg_track"

\* the record of the returned list for a recovered marker is the matcher's
ByMatcher(m) == \A i \in RecordsOf(m) : debug_info[i].source = "lg_reacquire"

\* C11 (as claimed): a call attempts every missing marker within the cap, and
\* a marker for which the tracker, the matcher or the verifier failed or
\* raised is absent from the returned mapping.
C11_FailureLeavesAbsent ==
    enabled =>
        /\ Len(attempts) = Min2(cfg.max_fallback_markers_per_frame, Cardinality(Missing))
        /\ \A k \in DOMAIN attempts :
              (attempts[k].failed # {} \/ (VerifyActive /\ attempts[k].bad_decode # {}))
                  => attempts[k].marker_id \notin DOMAIN updated_dict

\* C11 (amended): a call returns having attempted every missing marker within
\* the cap whatever failed or raised for the others; a marker for which the
\* matcher or the verification of its candidate failed is absent from the
\* returned mapping, and one for which the tracker or the verification of its
\* candidate failed is absent unless the matcher's candidate was accepted.
C11_FailureAbsorbed ==
    (enabled /\ pc = "returned") =>
        /\ Len(attempts) = Min2(cfg.max_fallback_markers_per_frame, Cardinality(Missing))
        /\ \A k \in DOMAIN attempts :
              LET m == attempts[k].marker_id
                  bad == IF VerifyActive THEN attempts[k].bad_decode ELSE {}
              IN  /\ "lg_reacquire" \in attempts[k].failed \cup bad
                      => m \notin DOMAIN updated_dict
                  /\ "lg_track" \in attempts[k].failed \cup bad
                      => (m \notin DOMAIN updated_dict \/ ByMatcher(m))

C11_Witness ==
    /\ Len(attempts) = 2
    /\ attempts[1].raised # {}
    /\ "lg_reacquire" \in attempts[1].failed \cup attempts[1].bad_decode
    /\ attempts[1].marker_id \notin DOMAIN updated_dict
    /\ attempts[2].marker_id \in DOMAIN updated_dict

\* recover_missing has been a no-op on the instance so far
NoOpSoFar ==
    /\ current_frame_index = 0
    /\ tracker_states = EmptyDict
    /\ last_reacquire_frame = EmptyDict
    /\ updated_dict = detected_dict
    /\ debug_info = <<>>

\* C12 (as claimed): whatever __init__ found missing, a dependency or the
\* template directory, the instance is disabled and its calls are no-ops.
C12_InitFailureDisables ==
    init_failure # "none" => (~enabled /\ NoOpSoFar)

\* C12 (amended): a missing PyTorch or LightGlue package leaves the instance
\* disabled and every call a no-op; a missing template directory leaves it
\* enabled without templates.
C12_ImportFailureDisables ==
    /\ init_failure \in {"torch", "lightglue"} => (~enabled /\ NoOpSoFar)
    /\ init_failure = "template_dir" => (enabled /\ templates = {})

C12_Witness ==
    /\ init_failure = "lightglue"
    /\ pc = "returned"
    /\ DOMAIN detected_dict # {}
    /\ Missing # {}

\* C13: a call on a disabled instance returns the mapping it was passed and an
\* empty list and leaves the frame counter, the tracker states, the
\* last-reacquire frames and the templates as they were; no step changes
\* enabled.
C13_DisabledIsNoOp ==
    [][/\ enabled' = enabled
       /\ ~enabled =>
             /\ current_frame_index' = current_frame_index
             /\ tracker_states' = tracker_states
             /\ last_reacquire_frame' = last_reacquire_frame
             /\ templates' = templates
             /\ pc' = "returned" =>
                   /\ updated_dict' = call_args'.detected
                   /\ debug_info' = <<>>]_vars

C13_Witness ==
    /\ init_failure = "torch"
    /\ ~enabled
    /\ pc = "returned"
    /\ DOMAIN updated_dict = Markers
    /\ debug_info = <<>>

\* C14: a marker without a loaded template never has a record of source
\* reacquired; detected directly it is returned and its tracker state
\* refreshed, and missing and attempted it is tracked exactly when its tracker
\* state is young enough.
C14_NoTemplateNoReacquire ==
    enabled =>
        /\ \A k \in DOMAIN debug_info :
              debug_info[k].source = "lg_reacquire" => debug_info[k].marker_id \in templates
        /\ \A m \in DOMAIN detected_dict \ templates :
              /\ m \in DOMAIN updated_dict
              /\ Trackable(m, current_frame_index)
        /\ \A k \in DOMAIN attempts :
              attempts[k].marker_id \notin templates =>
                  /\ attempts[k].tracked = Trackable(attempts[k].marker_id, current_frame_index)
                  /\ ~attempts[k].matched

C14_Witness ==
    /\ templates # {}
    /\ \E k \in DOMAIN debug_info :
          /\ debug_info[k].marker_id \notin templates
          /\ debug_info[k].source = "lg_track"
    /\ \E k \in DOMAIN attempts :
          /\ attempts[k].marker_id \in templates
          /\ attempts[k].matched

\* C15: every call on an enabled instance adds exactly one to
\* current_frame_index and nothing else changes it; no TrackerState is dropped,
\* last_seen_frame_index of a marker never decreases and never exceeds
\* current_frame_index.
C15_FrameCounterMonotone ==
    [][/\ (enabled /\ pc = "idle" /\ pc' = "returned")
             => current_frame_index' = current_frame_index + 1
       /\ pc' # "returned" => current_frame_index' = current_frame_index
       /\ \A m \in DOMAIN tracker_states :
             /\ m \in DOMAIN tracker_states'
             /\ tracker_states'[m].last_seen_frame_index
                   >= tracker_states[m].last_seen_frame_index
       /\ \A m \in DOMAIN tracker_states' :
             tracker_states'[m].last_seen_frame_index <= current_frame_index']_vars

\* a call that returned early, no marker missing, on the third frame
C15_Witness ==
    /\ enabled
    /\ pc = "returned"
    /\ current_frame_index = MaxFrame
    /\ DOMAIN detected_dict # {}
    /\ Missing = {}
    /\ \E m \in DOMAIN tracker_states :
          tracker_states[m].last_seen_frame_index < current_frame_index

\* C16 (as claimed): the interval guard never ends the recovery of a marker
\* for which the template matcher has not run before.
C16_FirstReacquireNotBlocked ==
    \A k \in DOMAIN attempts :
        attempts[k].skipped => last_matcher_frame[attempts[k].marker_id] # NeverFrame

\* C17 (as claimed): a missing marker within the cap whose TrackerState is at
\* most max_age_frames old is tracked, and when optical flow follows its four
\* corners inside the frame and verification passes it is returned with
\* source tracked and corners inside the frame.
C17_TrackedInFrame ==
    \A k \in DOMAIN attempts :
        LET m == attempts[k].marker_id
        IN  /\ Trackable(m, current_frame_index) => attempts[k].tracked
            /\ attempts[k].track_accepted =>
                  /\ m \in DOMAIN updated_dict
                  /\ \A i \in RecordsOf(m) : debug_info[i].source = "lg_track"
                  /\ ~OutOfFrame(updated_dict[m])

OwnState == <<enabled, cfg, aruco_detector, templates, current_frame_index,
              tracker_states, last_reacquire_frame>>

C20_MalformedRejected ==
    (enabled /\ pc = "returned") =>
        /\ \A k \in DOMAIN attempts :
              attempts[k].malformed =>
                  /\ attempts[k].marker_id \notin DOMAIN updated_dict
                  /\ RecordsOf(attempts[k].marker_id) = {}
        /\ \A m \in Recovered : IsQuad(updated_dict[m])
        /\ Len(attempts) = Min2(cfg.max_fallback_markers_per_frame, Cardinality(Missing))

C20_Witness ==
    /\ VerifyActive
    /\ Len(attempts) = 2
    /\ attempts[1].malformed
    /\ "lg_reacquire" \notin attempts[1].bad_decode
    /\ attempts[2].marker_id \in DOMAIN updated_dict

\* every record of source reacquired has min_inliers inliers and comes from an
\* attempt whose matches and homography passed the thresholds
ReacquiredHaveInliers ==
    \A i \in DOMAIN debug_info :
        debug_info[i].source = "lg_reacquire" =>
            /\ debug_info[i].inliers >= cfg.min_inliers
            /\ \E k \in DOMAIN attempts :
                  /\ attempts[k].marker_id = debug_info[i].marker_id
                  /\ attempts[k].consistent

\* C21 (as claimed): reacquired records have min_inliers inliers, and a
\* never-seen marker with a template for which the frame gives min_inliers
\* matches and inliers is returned with source reacquired.
C21_ConsistentMatchReacquired ==
    /\ ReacquiredHaveInliers
    /\ \A k \in DOMAIN attempts :
          LET m == attempts[k].marker_id
          IN  (m \notin DOMAIN tracker_states /\ m \in templates /\ attempts[k].consistent)
                  => (m \in DOMAIN updated_dict /\ ByMatcher(m))

\* C21 (amended): reacquired records have min_inliers inliers; a never-seen
\* marker with a template that is attempted and not held back by the interval
\* guard has the matcher run, and is returned with source reacquired when the
\* matches and the homography pass the thresholds, the projected corners lie
\* in the frame as a (4, 2) array and verification accepts them.
C21_ReacquireNeedsInliers ==
    /\ ReacquiredHaveInliers
    /\ \A k \in DOMAIN attempts :
          LET m == attempts[k].marker_id
          IN  (m \notin DOMAIN tracker_states /\ m \in templates) =>
                /\ ~attempts[k].skipped => attempts[k].matched
                /\ (cfg.reacquire_interval_frames = IntervalFrames
                      /\ m \notin DOMAIN last_reacquire_frame) => attempts[k].matched
                /\ (attempts[k].consistent
                      /\ "lg_reacquire" \notin attempts[k].failed
                      /\ ~attempts[k].malformed
                      /\ (VerifyActive => "lg_reacquire" \notin attempts[k].bad_decode))
                      => /\ m \in DOMAIN updated_dict
                         /\ ByMatcher(m)
                         /\ \A i \in RecordsOf(m) : debug_info[i].inliers >= cfg.min_inliers

C21_Witness ==
    \E k \in DOMAIN attempts :
        /\ attempts[k].marker_id \notin DOMAIN tracker_states
        /\ attempts[k].consistent
        /\ attempts[k].marker_id \in DOMAIN updated_dict
        /\ \A i \in RecordsOf(attempts[k].marker_id) : debug_info[i].inliers = cfg.min_inliers

\* the matcher returned a candidate for the marker of attempt k
MatcherCandidate(k) ==
    attempts[k].matched /\ "lg_reacquire" \notin attempts[k].failed

\* C24: a frame in which the matcher returns a candidate for a marker sets the
\* marker's last-reacquire frame to that frame, whatever verification says;
\* while fewer than reacquire_interval_frames frames have passed since, the
\* matcher is not run for the marker, and from then on the guard lets it run.
C24_CandidateStartsInterval ==
    [][/\ \A k \in DOMAIN attempts' :
             MatcherCandidate(k)' =>
                 /\ attempts'[k].marker_id \in DOMAIN last_reacquire_frame'
                 /\ last_reacquire_frame'[attempts'[k].marker_id] = current_frame_index'
       /\ \A k \in DOMAIN attempts' :
             LET m == attempts'[k].marker_id
             IN  m \in DOMAIN last_reacquire_frame =>
                   IF current_frame_index' - last_reacquire_frame[m]
                         < cfg.reacquire_interval_frames
                   THEN ~attempts'[k].matched
                   ELSE ~attempts'[k].skipped]_vars

\* a candidate rejected by verification one frame ago holds the matcher back
C24_Witness ==
    /\ VerifyActive
    /\ \E k \in DOMAIN attempts :
          /\ attempts[k].skipped
          /\ attempts[k].marker_id \in DOMAIN last_reacquire_frame
          /\ current_frame_index - last_reacquire_frame[attempts[k].marker_id]
                = cfg.reacquire_interval_frames - 1
          /\ attempts[k].marker_id \notin DOMAIN tracker_states

\* the tracker's candidate for the marker of attempt k failed verification
TrackRejected(k) ==
    VerifyActive /\ "lg_track" \in attempts[k].bad_decode

\* C25: after a tracked candidate that fails verification the marker is not
\* given up for the frame: unless the interval guard holds it back the matcher
\* runs when the marker has a template, and a matcher candidate that verifies
\* is returned with source reacquired and merged in that same frame.
C25_RejectedTrackFallsThrough ==
    \A k \in DOMAIN attempts :
        TrackRejected(k) =>
            LET m == attempts[k].marker_id
            IN  /\ ~attempts[k].track_accepted
                /\ attempts[k].returned # "lg_track"
                /\ ~attempts[k].skipped => (attempts[k].matched <=> m \in templates)
                /\ (MatcherCandidate(k) /\ "lg_reacquire" \notin attempts[k].bad_decode)
                      => /\ attempts[k].returned = "lg_reacquire"
                         /\ ~attempts[k].malformed
                               => m \in DOMAIN updated_dict /\ ByMatcher(m)

C25_Witness ==
    \E k \in DOMAIN attempts :
        /\ TrackRejected(k)
        /\ attempts[k].returned = "lg_reacquire"
        /\ attempts[k].marker_id \in DOMAIN updated_dict
        /\ ByMatcher(attempts[k].marker_id)
        /\ updated_dict[attempts[k].marker_id] # tracker_states[attempts[k].marker_id].last_corners

\* nothing could be done for the marker of attempt k: neither the tracker nor
\* the matcher was invoked
Idle(k) == ~attempts[k].tracked /\ ~attempts[k].matched

\* C26: every marker taken from the ordered missing list uses one slot of the
\* cap, also when neither tracker nor matcher is invoked for it: the markers
\* considered are as many as the cap allows, each once, and a missing marker
\* is left unconsidered only when the cap is used up.
C26_EverySlotCounts ==
    enabled =>
        /\ Len(attempts) = Min2(cfg.max_fallback_markers_per_frame, Cardinality(Missing))
        /\ \A j, k \in DOMAIN attempts :
              j # k => attempts[j].marker_id # attempts[k].marker_id
        /\ Attempted \subseteq Missing
        /\ Missing \ Attempted # {} =>
              Len(attempts) = cfg.max_fallback_markers_per_frame

\* the one slot went to a marker for which nothing was invoked, and a marker
\* with a template waits behind it
C26_Witness ==
    /\ cfg.max_fallback_markers_per_frame = 1
    /\ Len(attempts) = 1
    /\ Idle(1)
    /\ \E m \in Missing \ Attempted :
          /\ m \in templates
          /\ m \notin DOMAIN last_reacquire_frame

\* the last-reacquire frame of marker m is not what it was
ReacquireFrameWritten(m) ==
    \/ (m \in DOMAIN last_reacquire_frame') # (m \in DOMAIN last_reacquire_frame)
    \/ /\ m \in DOMAIN last_reacquire_frame
       /\ last_reacquire_frame'[m] # last_reacquire_frame[m]

C29_NoDetectorAcceptsAll ==
    (cfg.verify_id /\ ~aruco_detector) =>
        \A k \in DOMAIN attempts :
            LET m == attempts[k].marker_id
            IN  /\ ("lg_track" \notin attempts[k].failed /\ attempts[k].tracked)
                      => attempts[k].returned = "lg_track"
                /\ MatcherCandidate(k) => attempts[k].returned = "lg_reacquire"
                /\ (attempts[k].returned # "none" /\ ~attempts[k].malformed)
                      => m \in DOMAIN updated_dict

\* a candidate whose patch does not decode to the marker is in the output
C29_Witness ==
    /\ cfg.verify_id
    /\ ~aruco_detector
    /\ \E k \in DOMAIN attempts :
          /\ attempts[k].bad_decode # {}
          /\ attempts[k].returned \in attempts[k].bad_decode
          /\ attempts[k].marker_id \in DOMAIN updated_dict

\* the sort key of a missing marker in the last call: its tracker state is
\* the one the call found, a call writes only the states of detected markers
SeenKey(m) == LastSeen(Self, m)

\* C30: the attempted markers are the most recently seen of the missing ones:
\* no unattempted missing marker was seen more recently than an attempted
\* one, a never-seen marker is attempted only when every missing marker with
\* a TrackerState is, and the attempts are made in descending order of
\* last_seen_frame_index.
C30_MostRecentFirst ==
    /\ \A a \in Attempted, u \in Missing \ Attempted :
          /\ SeenKey(a) >= SeenKey(u)
          /\ a \notin DOMAIN tracker_states => u \notin DOMAIN tracker_states
    /\ \A j, k \in DOMAIN attempts :
          j < k => SeenKey(attempts[j].marker_id) >= SeenKey(attempts[k].marker_id)
    /\ \A m \in Markers :
          m \in DOMAIN tracker_states => SeenKey(m) > NeverFrame

\* more missing than the cap, both seen before, the later seen one attempted
C30_Witness ==
    /\ Cardinality(Missing) > cfg.max_fallback_markers_per_frame
    /\ \E a \in Attempted, u \in Missing \ Attempted :
          /\ a \in DOMAIN tracker_states
          /\ u \in DOMAIN tracker_states
          /\ SeenKey(a) > SeenKey(u)

\* run() has returned or raised
WorkerEnded == worker.pc \in {"done", "raised"}

\* C22 (as claimed): a run with max_frames = N > 0 ends, whatever the capture
\* returns, and a run that neither stop() nor the duration ended returns a
\* summary with frames_processed = N.
C22_RunTerminates ==
    /\ []((worker.pc = "head" /\ worker.max_frames > 0) => <>WorkerEnded)
    /\ []((worker.pc = "done" /\ worker.exit = "max_frames")
            => worker.frames_processed = worker.max_frames)

\* the positions of the header line in what the publisher received
HeaderAt == {i \in DOMAIN facade.sent : facade.sent[i] = "header"}

\* C23 (as claimed): in a session with a publisher the header line is
\* published at most once, and exactly once before the first data line,
\* whichever publish calls fail.
C23_HeaderOnceFirst ==
    facade.publisher =>
        /\ Cardinality(HeaderAt) <= 1
        /\ facade.sent # <<>> => HeaderAt = {1}

\* C27: the tracker is invoked for a marker only in the max_age_frames frames
\* after its last direct detection, also when the frames in between gave
\* tracked results, and it is handed the corners and the frame index of that
\* direct detection.
C27_TrackFromLastDirect ==
    \A k \in DOMAIN attempts :
        LET m == attempts[k].marker_id
            h == history[m]
        IN  /\ attempts[k].tracked =>
                  /\ h.direct_frame # NeverFrame
                  /\ current_frame_index - h.direct_frame <= cfg.max_age_frames
                  /\ attempts[k].track_from.last_corners = h.direct_corners
                  /\ attempts[k].track_from.last_seen_frame_index = h.direct_frame
                  /\ attempts[k].track_from.last_frame_gray
            /\ (h.direct_frame # NeverFrame
                   /\ current_frame_index - h.direct_frame > cfg.max_age_frames)
                  => ~attempts[k].tracked

\* tracked in the frame before, too old for the tracker in this one
C27_Witness ==
    \E k \in DOMAIN attempts :
        LET h == history[attempts[k].marker_id]
        IN  /\ ~attempts[k].tracked
            /\ h.tracked_frame = current_frame_index - 1
            /\ current_frame_index - h.direct_frame = cfg.max_age_frames + 1

\* C31: the tracker comes first: the matcher runs for a marker only when the
\* tracker was not applicable or gave no accepted candidate, and a call whose
\* tracked candidate is accepted returns it, does not run the matcher for
\* that marker and leaves its last-reacquire frame as it was.
C31_TrackerFirst ==
    [][\A k \in DOMAIN attempts' :
          /\ attempts'[k].matched => ~attempts'[k].track_accepted
          /\ attempts'[k].track_accepted =>
                /\ attempts'[k].tracked
                /\ ~attempts'[k].matched
                /\ ~attempts'[k].skipped
                /\ attempts'[k].returned = "lg_track"
                /\ ~ReacquireFrameWritten(attempts'[k].marker_id)]_vars

\* a tracked candidate accepted for a marker the matcher could have taken
C31_Witness ==
    \E k \in DOMAIN attempts :
        /\ attempts[k].track_accepted
        /\ VerifyActive
        /\ attempts[k].marker_id \in templates
        /\ attempts[k].marker_id \notin DOMAIN last_reacquire_frame
        /\ cfg.reacquire_interval_frames = IntervalFrames

\* the tracked points of flow fl for marker m, in frame coordinates: the ROI
\* is the box of the last corners grown by roi_expand_px and cut to the frame
TrackedInFrame(m, fl) ==
    LET last_corners == tracker_states[m].last_corners
    IN  Shift(fl.corners, Max2(0, SetMin(Xs(last_corners)) - cfg.roi_expand_px),
                          Max2(0, SetMin(Ys(last_corners)) - cfg.roi_expand_px))

\* C32: a flow that lost one of the four points, or put one outside the
\* frame, gives no tracked candidate; and after a tracker that gave none the
\* matcher runs in the same call iff the interval guard lets it and the
\* marker has a template.
C32_LostTrackFallsThrough ==
    /\ \A m \in DOMAIN tracker_states, fl \in Flows, sh \in RefineShifts :
          (~fl.raised /\ (~fl.status \/ OutOfFrame(TrackedInFrame(m, fl))))
              => _track_marker(Self, m, tracker_states[m], fl, sh) = NoResult
    /\ \A k \in DOMAIN attempts :
          (attempts[k].tracked /\ "lg_track" \in attempts[k].failed) =>
              /\ attempts[k].returned # "lg_track"
              /\ ~attempts[k].track_accepted
              /\ attempts[k].matched <=>
                    (~attempts[k].skipped /\ attempts[k].marker_id \in templates)

\* the tracker gave nothing and the matcher recovered the marker
C32_Witness ==
    \E k \in DOMAIN attempts :
        /\ attempts[k].tracked
        /\ "lg_track" \in attempts[k].failed
        /\ attempts[k].returned = "lg_reacquire"
        /\ attempts[k].marker_id \in DOMAIN updated_dict

SearchOrigin(m) ==
    IF cfg.prefer_roi_matching /\ m \in DOMAIN tracker_states
    THEN LET last_corners == tracker_states[m].last_corners
         IN  <<Max2(0, SetMin(Xs(last_corners)) - 3 * cfg.roi_expand_px),
               Max2(0, SetMin(Ys(last_corners)) - 3 * cfg.roi_expand_px)>>
    ELSE <<0, 0>>

\* a match with enough valid matches and a homography with enough inliers
GoodMatch(mt) ==
    /\ ~mt.raised
    /\ mt.valid >= cfg.min_inliers
    /\ mt.found
    /\ mt.inliers >= cfg.min_inliers

\* C34: the corners the matcher finds are moved by the origin of the cropped
\* region iff prefer_roi_matching is set and the marker has a TrackerState,
\* of whatever age, and are taken as full-frame corners otherwise; the bounds
\* check is made on the moved corners.
C34_RoiIffPreferredAndSeen ==
    \A m \in templates, mt \in Matches, sh \in RefineShifts, shape \in RefineShapes :
        GoodMatch(mt) =>
            LET found == Shift(mt.corners, SearchOrigin(m)[1], SearchOrigin(m)[2])
                res == _reacquire_from_template(Self, m, mt, sh, shape)
            IN  IF OutOfFrame(found)
                THEN res.corners = None
                ELSE res.corners = Reshaped(Self, Refine(Self, found, sh), shape)

\* a marker re-acquired in a region away from the frame's origin, around
\* corners too old for the tracker
C34_Witness ==
    \E k \in DOMAIN attempts :
        LET m == attempts[k].marker_id
        IN  /\ attempts[k].returned = "lg_reacquire"
            /\ m \in DOMAIN updated_dict
            /\ m \in DOMAIN tracker_states
            /\ current_frame_index - tracker_states[m].last_seen_frame_index
                  > cfg.max_age_frames
            /\ cfg.prefer_roi_matching
            /\ SearchOrigin(m) # <<0, 0>>

\* the orders in which the markers of the last call may be attempted, each cut
\* to the cap of recovery attempts per frame
AttemptOrders ==
    {SubSeq(o, 1, Min2(Len(o), cfg.max_fallback_markers_per_frame)) :
        o \in SortedMissing(Self, Missing)}

\* C35: the markers attempted and their order are a function of the missing
\* set and the tracker state alone: for every call there is one sequence of
\* attempted markers, also when markers of equal last-seen frame are cut by
\* the cap.
C35_OrderDetermined ==
    enabled => Cardinality(AttemptOrders) = 1

\* C33: the match_quality of every attempt record lies between 0 and 1: it is
\* 1 for a direct detection, 1 minus the mean tracking error for a tracked
\* marker and inliers over valid matches for a re-acquired one.
C33_QualityInUnitRange ==
    \A k \in DOMAIN debug_info :
        /\ debug_info[k].match_quality >= 0
        /\ debug_info[k].match_quality <= QScale

\* C37: once stop() is called, run() finishes at most the frame in progress
\* and then ends: the flag is read at the head of an iteration only, where it
\* ends the loop before the other checks, a frame being processed is finished
\* whatever the flag says, and failed reads do not keep the loop going.
C37_StopEndsRun ==
    /\ [](worker.stop => <>WorkerEnded)
    /\ [](worker.stop => worker.frames <= worker.frames_at_stop + 1)
    /\ [][(worker'.exit = "stop" /\ worker.exit # "stop") => worker.pc = "head"]_vars
    /\ [][(worker.stop /\ worker.pc = "head" /\ worker'.pc # "head")
             => (worker'.pc = "finally" /\ worker'.exit = "stop")]_vars

\* a run without frame limit or duration, whose capture also failed reads,
\* ended by a stop() that arrived while a frame with the fallback was being
\* processed: that frame was counted, then run returned
C37_Witness ==
    /\ worker.stop
    /\ worker.pc = "done"
    /\ worker.exit = "stop"
    /\ worker.max_frames = 0
    /\ ~worker.timed
    /\ worker.detect
    /\ worker.lightglue_fallback
    /\ worker.errors > 0
    /\ worker.frames = worker.frames_at_stop + 1
    /\ worker.frames_processed = worker.frames

\* stop() and close() were called on a capture or a writer, returning or not
Stopped(cap) == cap \in {"stopped", "stop_failed"}
Closed(out) == out \in {"closed", "close_failed"}

\* C38: however the frame loop of CameraWorker.run or of run_session ends, the
\* capture is stopped and every output or CSV writer is closed, also when an
\* earlier cleanup step raised.
C38_CleanupAlwaysRuns ==
    /\ (WorkerEnded /\ worker.cap # "new")
          => (Stopped(worker.cap) /\ \A i \in 1..WorkerOutputs : Closed(worker.outputs[i]))
    /\ facade.pc \in {"done", "raised"}
          => (Stopped(facade.cap) /\ Closed(facade.csv_local))

\* both loops left by an exception, both cap.stop() raising, the worker's
\* first output failing to close: the later output and the CSV writer are
\* closed
C38_Witness ==
    /\ worker.pc = "raised"
    /\ worker.exit = "exception"
    /\ worker.cap = "stop_failed"
    /\ worker.outputs[1] = "close_failed"
    /\ worker.outputs[WorkerOutputs] = "closed"
    /\ facade.pc = "raised"
    /\ facade.cap = "stop_failed"
    /\ facade.csv_local = "closed"

====
